---- MODULE Spec2Model ----
(***************************************************************************)
(* AutoTestGen: the iteration controller (generate_tests_pipeline), the    *)
(* sandbox runner (run_tests_in_container), the bootstrap script that runs *)
(* inside the sandbox (_run_tests_script.py) and the container lifecycle.  *)
(*                                                                         *)
(* A text is a sequence of lines; a line is a string.  Dictionaries that   *)
(* may lack keys (the execution report) are records with a "keys" field    *)
(* naming the keys that are present.                                       *)
(***************************************************************************)
EXTENDS Integers, Sequences, FiniteSets, TLC

\* ------------------------------------------------------------------ bounds

\* Largest max_iter a generation request is started with.
MaxIter == 2
\* Largest n_samples a generation request is started with.
MaxSamples == 2

\* Largest number of lines of the module under test.
MaxModuleLen == 3
\* Largest line number a stored test record names.
MaxLine == 2
\* Largest number of test records stored for one object.
MaxRecords == 2

\* Most constructions of a ContainerManager in one session.
MaxStarts == 2

\* Largest token count a row of token_usage reaches.
MaxTokens == 3
\* Largest number of rows in the table tests.
MaxRows == 2

\* ------------------------------------------------------------- vocabulary

NoneVal == "None"

\* mod_name = "mod", obj_name = "obj"
import_string == "from mod import obj"
import_asterisk == "from mod import *"
\* a line that starts with import_string but imports another name
import_longer == "from mod import obj_helper"
guard_sq == "if __name__ == '__main__':"
guard_dq == "if __name__ == \"__main__\":"
main_call == "unittest.main()"
main_call_indented == "    unittest.main()"
\* The Markdown code fence (three backquotes) is written <fence>.
fence_open == "<fence>python"
fence_close == "<fence>"
prose == "Here are the tests:"

\* Lines of a candidate that decide what happens when it is loaded and run.
raise_name_error == "x = undefined_name"
raise_file_not_found == "open('missing.txt')"
raise_system_exit == "raise SystemExit(0)"
test_pass == "def test_pass(self): ..."
test_error == "def test_error(self): raise ValueError"
test_fail == "def test_fail(self): self.assertEqual(1, 2)"

TestLines == {test_pass, test_error, test_fail}
\* Lines that are not Python: the file does not compile.
NotPython == {prose, fence_open, fence_close}

LANGUAGE == "python"

\* ---------------------------------------------------------------- helpers

\* Python truthiness of a str-or-None value and of a list.
TruthyStr(s) == s # NoneVal /\ s # ""
TruthyList(l) == Len(l) > 0

\* "x in lst"
In(x, lst) == \E i \in 1..Len(lst) : lst[i] = x

\* lst.index(x), 1-based; 0 when x is not in lst (Python raises ValueError).
IndexOf(x, lst) ==
    IF In(x, lst)
    THEN CHOOSE i \in 1..Len(lst) :
            lst[i] = x /\ \A j \in 1..(i - 1) : lst[j] # x
    ELSE 0

\* lst.remove(x): drops the first occurrence.
RemoveFirst(x, lst) ==
    LET k == IndexOf(x, lst) IN
    IF k = 0 THEN lst
    ELSE [i \in 1..(Len(lst) - 1) |-> IF i < k THEN lst[i] ELSE lst[i + 1]]

\* lst[a:b] with 0-based a, b as in Python (a, b >= 0).
Slice(lst, a, b) ==
    LET hi == IF b > Len(lst) THEN Len(lst) ELSE b IN
    IF a >= hi THEN <<>> ELSE [i \in 1..(hi - a) |-> lst[a + i]]

RECURSIVE Flatten(_)
Flatten(ss) == IF ss = <<>> THEN <<>> ELSE Head(ss) \o Flatten(Tail(ss))

\* ------------------------------------------------------------- templates

\* f"{i}." for the enumerations of list_errors and combine_samples
Ordinal(i) == ToString(i) \o "."

\* templates.list_errors: one line per (test_id, error_msg) pair, numbered
\* from 1: "{i}. Test {test_id} failed with error: {error_msg}"
list_errors(errors) ==
    Flatten([i \in 1..Len(errors) |->
        <<Ordinal(i), "Test", errors[i][1], "failed with error:", errors[i][2]>>])

\* templates.combine_samples: "{i}. Response:\n{resp}\nResult: {result}"
combine_samples(samples) ==
    Flatten([i \in 1..Len(samples) |->
        <<Ordinal(i), "Response:">> \o samples[i][1]
            \o <<"Result:">> \o samples[i][2]])

\* (mutant: the reprompt leaves the error text out)
COMPILING_ERROR_REPROMPT_NoMessage(error_msg, language) ==
    <<"The code that you have provided failed to compile.",
      "Try to fix the error and resubmit your response.",
      language>>

COMPILING_ERROR_REPROMPT(error_msg, language) ==
    <<"The code that you have provided failed to compile with the following error:",
      error_msg,
      "Try to fix the error and resubmit your response.",
      language>>

TEST_ERROR_REPROMPT(id_error_str, language) ==
    <<"While running the tests following errors occured:">>
        \o id_error_str
        \o <<"Try to fix them and resubmit your response.", language>>

COMBINING_SAMPLES_PROMPT(initial_prompt, n_samples, combined_samples, language) ==
    <<"For the following prompt:">> \o initial_prompt
        \o <<"You have generated following", ToString(n_samples), "responses:">>
        \o combined_samples
        \o <<"generate a single best response.", language>>

\* ----------------------------------------------------------- postprocess

StartsWithImportString(l) == l \in {import_string, import_longer}

\* postprocess_resp raises ValueError: an opening fence line without a closing fence line.
PostprocessRaises(test) == In(fence_open, test) /\ ~In(fence_close, test)

\* PythonAdapter.postprocess_resp, on the lines of the response.
postprocess_resp(test) ==
    LET imported == \E i \in 1..Len(test) :
                        StartsWithImportString(test[i]) \/ test[i] = import_asterisk
        l1 == IF imported THEN test ELSE <<import_string>> \o test
        l2 == IF ~In(guard_sq, l1) /\ ~In(guard_dq, l1)
              THEN (IF In(main_call, l1) THEN RemoveFirst(main_call, l1) ELSE l1)
                        \o <<guard_sq, main_call_indented>>
              ELSE l1
    IN  IF In(fence_open, l2)
        THEN Slice(l2, IndexOf(fence_open, l2), IndexOf(fence_close, l2) - 1)
        ELSE l2

\* ------------------------------------------- bootstrap (_run_tests_script)

\* The module under test has these source lines; line 1 is the def line.
ModuleLines == {1, 2, 3}

\* The candidate binds the target name (obj) at module scope.
TargetImported(src) == In(import_string, src) \/ In(import_asterisk, src)
\* The candidate loads the module under test.
ModuleImported(src) == TargetImported(src) \/ In(import_longer, src)

\* Lines whose execution at module scope raises, with the exception's class,
\* the text of traceback.format_exception_only(type(e), e)[-1] and the exit
\* code of the interpreter when nothing catches it.
RaisingLines == {raise_name_error, raise_file_not_found, raise_system_exit, main_call}
ExcOf(l) ==
    CASE l = raise_name_error ->
            [class |-> "NameError", base |-> "Exception", exit_code |-> 1,
             text |-> "NameError: name 'undefined_name' is not defined"]
      [] l = raise_file_not_found ->
            [class |-> "FileNotFoundError", base |-> "Exception", exit_code |-> 1,
             text |-> "FileNotFoundError: [Errno 2] No such file or directory: 'missing.txt'"]
      [] l = raise_system_exit ->
            [class |-> "SystemExit", base |-> "BaseException", exit_code |-> 0,
             text |-> "SystemExit: 0"]
      [] OTHER -> \* unittest.main() at module scope: sys.exit(not wasSuccessful())
            [class |-> "SystemExit", base |-> "BaseException", exit_code |-> 1,
             text |-> "SystemExit: True"]

\* spec.loader.exec_module(module): compiles the whole file, then executes
\* it line by line; the first raising line ends it.
ExecModule(src) ==
    IF \E i \in 1..Len(src) : src[i] \in NotPython
    THEN [raised |-> TRUE,
          exc |-> [class |-> "SyntaxError", base |-> "Exception", exit_code |-> 1,
                   text |-> "SyntaxError: invalid syntax"]]
    ELSE IF \E i \in 1..Len(src) : src[i] \in RaisingLines
    THEN LET k == CHOOSE i \in 1..Len(src) :
                    /\ src[i] \in RaisingLines
                    /\ \A j \in 1..(i - 1) : src[j] \notin RaisingLines
         IN  [raised |-> TRUE, exc |-> ExcOf(src[k])]
    ELSE [raised |-> FALSE,
          exc |-> [class |-> "", base |-> "", exit_code |-> 0, text |-> ""]]

\* What one test case does when the runner runs it.
TestId(l) ==
    CASE l = test_pass -> "test_pass"
      [] l = test_error -> "test_error"
      [] OTHER -> "test_fail"
TestVerdict(l, src) ==
    IF ~TargetImported(src) THEN "error"
    ELSE CASE l = test_pass -> "ok"
           [] l = test_error -> "error"
           [] OTHER -> "failure"
TestTrace(l, src) ==
    IF ~TargetImported(src) THEN "Traceback: NameError: name 'obj' is not defined"
    ELSE IF l = test_error THEN "Traceback: ValueError"
    ELSE "Traceback: AssertionError: 1 != 2"

\* unittest: TestLoader().loadTestsFromModule + TextTestRunner().run
RunSuite(src) ==
    LET IsTest(l) == l \in TestLines
        tests == SelectSeq(src, IsTest)
        IsError(l) == TestVerdict(l, src) = "error"
        IsFailure(l) == TestVerdict(l, src) = "failure"
        errs == SelectSeq(tests, IsError)
        fails == SelectSeq(tests, IsFailure)
    IN  [testsRun |-> Len(tests),
         errors |-> [i \in 1..Len(errs) |-> <<TestId(errs[i]), TestTrace(errs[i], src)>>],
         failures |-> [i \in 1..Len(fails) |-> <<TestId(fails[i]), TestTrace(fails[i], src)>>]]

NoSuite == [testsRun |-> 0, errors |-> <<>>, failures |-> <<>>]

\* _run_tests(): kind "str" (the compile error text), "result" (the
\* unittest.TestResult) or "raise" (the exception leaves _run_tests).
\* FileNotFoundError is re-raised; "except Exception" does not catch a
\* BaseException such as SystemExit.
_run_tests(src) ==
    LET m == ExecModule(src) IN
    IF m.raised /\ m.exc.class = "FileNotFoundError"
    THEN [kind |-> "raise", text |-> m.exc.text, result |-> NoSuite, ran |-> FALSE]
    ELSE IF m.raised /\ m.exc.base = "Exception"
    THEN [kind |-> "str", text |-> m.exc.text, result |-> NoSuite, ran |-> FALSE]
    ELSE IF m.raised
    THEN [kind |-> "raise", text |-> m.exc.text, result |-> NoSuite, ran |-> FALSE]
    ELSE [kind |-> "result", text |-> "", result |-> RunSuite(src), ran |-> TRUE]

\* Lines of the module under test that coverage saw executed in this run.
ExecutedLines(src) ==
    (IF ModuleImported(src) THEN {1} ELSE {})
        \cup (IF TargetImported(src) /\ \E i \in 1..Len(src) : src[i] \in TestLines
              THEN {2} ELSE {})

\* A dict: the keys present and, for each key, its value (a default of the
\* key's type when the key is absent).
EmptyDict ==
    [keys |-> {}, tests_ran_n |-> 0, errors |-> <<>>, failures |-> <<>>,
     executed_lines |-> {}, missing_lines |-> {}, compile_error |-> NoneVal]

ReportKeys ==
    {"tests_ran_n", "errors", "failures", "executed_lines", "missing_lines",
     "compile_error"}

\* run_tests_with_coverage_python(module_dir) on the injected test_source.
\* json_ok: cov.json_report and the reading of its file succeed.
\* Returns kind "return" with the test_metadata dict, or kind "raise".
run_tests_with_coverage_python(src, json_ok) ==
    LET result == _run_tests(src) IN
    IF result.kind = "raise"
    THEN [kind |-> "raise", ran_tests |-> FALSE, test_metadata |-> EmptyDict]
    ELSE IF result.kind = "str"
    THEN [kind |-> "return", ran_tests |-> FALSE,
          test_metadata |->
            [EmptyDict EXCEPT !.keys = {"compile_error"}, !.compile_error = result.text]]
    ELSE IF json_ok
    THEN [kind |-> "return", ran_tests |-> TRUE,
          test_metadata |->
            [keys |-> ReportKeys,
             tests_ran_n |-> result.result.testsRun,
             errors |-> result.result.errors,
             failures |-> result.result.failures,
             executed_lines |-> ExecutedLines(src),
             missing_lines |-> ModuleLines \ ExecutedLines(src),
             compile_error |-> NoneVal]]
    ELSE \* the bare except: test_metadata is returned as filled so far
         [kind |-> "return", ran_tests |-> TRUE, test_metadata |-> EmptyDict]

\* ------------------------------------------------------------ the inputs

\* Temperatures (in tenths) a request may be started with.
Temps == {1, 7}

RespPass == <<import_string, test_pass>>
RespFailNoImport == <<test_fail>>
RespErrorAndFail == <<import_string, test_error, test_fail>>
RespNameError == <<import_string, raise_name_error, test_pass>>
RespFileNotFound == <<import_string, raise_file_not_found, test_pass>>
RespFenced == <<prose, fence_open, import_string, test_pass, fence_close>>
RespSystemExit == <<import_string, raise_system_exit, test_pass>>
RespFencedNoImport == <<prose, fence_open, test_pass, fence_close>>

\* What the completion service may answer with.
Responses ==
    {RespPass, RespFailNoImport, RespErrorAndFail, RespNameError,
     RespFileNotFound, RespFenced, RespSystemExit, RespFencedNoImport}

\* The two-message prompt of prepare_prompt.
InitialPrompt ==
    <<[role |-> "system", content |-> <<"Generate high-quality comprehensive unit tests">>],
      [role |-> "user", content |-> <<"Function Definition:", "INFO sheet:">>]>>

error_pre == "Executing tests failed with the following error:"
success_pre == "Tests were succesfully executed."

\* ------------------------------------------------------------- the state

VARIABLES
    api_key,        \* TestGenerator._api_key ("None" when not set)
    model,          \* TestGenerator._model ("None" when not set)
    container,      \* docker status of the sandbox container, or "removed"
    files,          \* the two files of the sandbox: the injected source, the report
    close_raised,   \* the last close_container call raised
    pc,             \* position of generate_tests_pipeline
    phase,          \* "pre" (combining the samples) or "loop" (the main loop)
    n_samples, max_iter, temp,
    messages,       \* initial_prompt, the conversation
    response,       \* the list _generate_tests returned last
    idx,            \* position of the for-loop over the samples (1-based)
    sample_results,
    iter,           \* the main loop's iter
    resp_post, test_report,
    run_src,        \* test_source of the run_tests_in_container call in progress
    resp,           \* what exec_run returned in that call (its exit code)
    result,         \* what generate_tests_pipeline returned
    reqs,           \* history: the completion requests issued
    runs,           \* history: the run_tests_in_container calls made
    ADAPTER,        \* config.ADAPTER ("None" until set_adapter)
    module_source,  \* the lines of the module the adapter was built on
    test_metadata,  \* the stored records of the selected object
    call,           \* the last call of find_lines / compute_coverage and its outcome
    unit,           \* CodeAnalyser: what it found in the module it was built on
    visitor,        \* CodeAnalyser.ast_visitor: the attributes of the AstVisitor
    built,          \* the last call of the prompt builder and its outcome
    docker,         \* the docker daemon: its images, its containers
    manager,        \* ContainerManager: the last construction and its outcome
    db,             \* the database: the tables tests and token_usage
    query,          \* the last call of the DBManager and what it returned
    script          \* the bootstrap process in the sandbox, step by step

sandbox == <<container, files, close_raised>>
config == <<api_key, model>>
inputs == <<n_samples, max_iter, temp>>
locals == <<response, idx, sample_results, iter, resp_post, test_report, run_src, resp>>
history == <<reqs, runs>>
\* utils.py: the coverage aggregator and what it reads
aggregator == <<ADAPTER, module_source, test_metadata, call>>
\* what a generation request and the sandbox work on
pipeline == <<api_key, model, container, files, close_raised, pc, phase,
              n_samples, max_iter, temp, messages, response, idx, sample_results,
              iter, resp_post, test_report, run_src, resp, result, reqs, runs,
              docker, manager, script>>
\* the docker daemon and the object that starts the sandbox
daemon == <<docker, manager>>
\* python_adapter.py: the analyser of the module and the prompt builder
builder == <<unit, visitor, built>>
\* what a generation request leaves alone
\* db_manager.py: the database and the last call on it
database == <<db, query>>
outside == <<aggregator, builder, database>>
vars == <<pipeline, outside>>

NoResp == [present |-> FALSE, exit_code |-> 0]
NoFile == [present |-> FALSE, lines |-> <<>>, dict |-> EmptyDict]
NoResult == [returned |-> FALSE, messages |-> <<>>, test |-> <<>>, report |-> EmptyDict]

\* No call of the aggregator yet.
NoCall ==
    [fn |-> "", object_type |-> "", kind |-> "", exc |-> "",
     start_line |-> 0, end_line |-> 0, value |-> 0]

\* config.py as imported: ADAPTER = None; nothing stored, nothing called.
AggregatorIdle ==
    /\ ADAPTER = NoneVal
    /\ module_source = <<>>
    /\ test_metadata = <<>>
    /\ call = NoCall

\* AstVisitor.__init__ and restore_visitor: all four attributes empty.
NewVisitor ==
    [import_statements |-> <<>>, modules |-> {}, func_names |-> {}, instances |-> {}]

\* No module analysed.
NoUnit == [analysed |-> FALSE]

\* No call of the prompt builder yet.
NoBuilt ==
    [fn |-> "", args |-> <<>>, kind |-> "", exc |-> "",
     info_sheet |-> <<>>, messages |-> <<>>, local_calls |-> {}]

\* No module selected: no analyser, nothing built.
BuilderIdle ==
    /\ unit = NoUnit
    /\ visitor = NewVisitor
    /\ built = NoBuilt

\* constants.MODELS; two of the four are kept.
MODELS == <<"gpt-3.5-turbo", "gpt-4">>

\* create_tables (lines 35-78): no test stored, a row of zeros per model.
NewDatabase ==
    [tests |-> {},
     token_usage |-> {[model |-> MODELS[i], input_tokens |-> 0, output_tokens |-> 0] :
                        i \in 1..Len(MODELS)}]

NoQuery == [fn |-> "", args |-> <<>>, kind |-> "", exc |-> "", rows |-> {}]

\* A database just created, no call on it yet.
DatabaseIdle ==
    /\ db = NewDatabase
    /\ query = NoQuery

\* No bootstrap process is being followed.
NoScript ==
    [pc |-> "idle", module_dir |-> <<>>, src |-> <<>>, json_ok |-> TRUE,
     entered |-> {}, sys_modules |-> {}, cov |-> "none", traced |-> {}, bound |-> "none",
     result |-> "", test_metadata |-> EmptyDict, written |-> FALSE]

\* ContainerManager.container_name (line 41) and the image the session asks for.
container_name == "autotestgen"
image_asked == "autotestgen:latest"
repo_dir == "/home/user/repo"

\* The output of "python3 --version" in a container: <<major, minor>>, or
\* <<>> when the command fails.
Majors == {2, 3, 4}
Minors == {0, 8, 9, 10}
Versions == (Majors \X Minors) \cup {<<>>}

\* An image of the daemon: its tags (none for an untagged image) and the
\* python3 it provides.
Image(tags, python) == [tags |-> tags, python |-> python]

\* start_container, lines 138-145: the container as created.
Created(id, image) ==
    [id |-> id, name |-> container_name, status |-> "created", python |-> image.python,
     volumes |-> [host |-> repo_dir, bind |-> "/tmp/autotestgen/", mode |-> "ro"]]

\* The containers of the sandbox name.
Sandboxes(dk) == {c \in dk.containers : c.name = container_name}

\* client.containers.get(container_name).status, "removed" when NotFound.
StatusByName(dk) ==
    IF Sandboxes(dk) = {} THEN "removed" ELSE (CHOOSE c \in Sandboxes(dk) : TRUE).status

\* The state after a first ContainerManager(image_asked, repo_dir) succeeded
\* on a daemon that has the image.
DaemonStarted ==
    /\ docker = [images |-> {Image(<<image_asked>>, <<3, 9>>)},
                 containers |-> {[Created(1, Image(<<image_asked>>, <<3, 9>>))
                                    EXCEPT !.status = "running"]},
                 next_id |-> 2]
    /\ manager = [container |-> 1, image_name |-> image_asked, exc |-> "", calls |-> 1]

\* After ContainerManager.__init__: the container runs; no request yet.
PipelineInit ==
    /\ api_key \in {NoneVal, "sk-key"}
    /\ model \in {NoneVal, "gpt-3.5-turbo"}
    /\ container = "running"
    /\ DaemonStarted
    /\ script = NoScript
    /\ files = [test_source |-> NoFile, test_metadata |-> NoFile]
    /\ close_raised = FALSE
    /\ pc = "idle"
    /\ phase = "loop"
    /\ n_samples = 1 /\ max_iter = 1 /\ temp = 1
    /\ messages = InitialPrompt
    /\ response = <<>>
    /\ idx = 1
    /\ sample_results = <<>>
    /\ iter = 0
    /\ resp_post = <<>>
    /\ test_report = EmptyDict
    /\ run_src = <<>>
    /\ resp = NoResp
    /\ result = NoResult
    /\ reqs = <<>>
    /\ runs = <<>>

Init == PipelineInit /\ AggregatorIdle /\ BuilderIdle /\ DatabaseIdle

\* ------------------------------------------------ generate_tests_pipeline

\* _generate_tests(messages, n_samples, temp): the request as issued.
\* after_runs: the sandbox runs made before it.
Request(kind, msgs, n, t) ==
    [kind |-> kind, n |-> n, temp |-> t, messages |-> msgs, after_runs |-> Len(runs)]

\* (mutant: two samples are not combined)
NeedsCombiningFromThree(r) == Len(r) > 2

\* Line 58: the samples are combined first.
NeedsCombining(r) == Len(r) > 1

\* (mutant: every exit code passes)
ExitCodeOkAlways(code) == TRUE

\* container_manager.py 285: "if resp.exit_code != 0: raise RuntimeError"
ExitCodeOk(code) == code = 0

\* (mutant: the loop runs once more than max_iter)
LoopRangeOffByOne(i, k) == i <= k

\* "for iter in range(max_iter)": the loop body runs for this iter.
LoopRange(i, k) == i < k

\* Lines 98-131: the branch taken on a report.  A missing key is a KeyError.
Branch(report) ==
    IF "compile_error" \notin report.keys THEN "KeyError"
    ELSE IF TruthyStr(report.compile_error) THEN "compile_error"
    ELSE IF "errors" \notin report.keys THEN "KeyError"
    ELSE IF TruthyList(report.errors) THEN "errors"
    ELSE "break"

\* Lines 69-74: the outcome of one sample as text.
SampleResult(report) ==
    IF Branch(report) = "compile_error" THEN <<error_pre, report.compile_error>>
    ELSE IF Branch(report) = "errors" THEN <<error_pre>> \o list_errors(report.errors)
    ELSE <<success_pre>>

\* Lines 104-109 and 120-125: the two turns appended before a reprompt.
RepromptTurns(post, report) ==
    <<[role |-> "assistant", content |-> post],
      [role |-> "user",
       content |-> IF Branch(report) = "compile_error"
                   THEN COMPILING_ERROR_REPROMPT(report.compile_error, LANGUAGE)
                   ELSE TEST_ERROR_REPROMPT(list_errors(report.errors), LANGUAGE)]>>

\* Lines 110 and 126: the reprompt asks for this many samples at this temperature.
RepromptSamples == 1
RepromptTemp(t) == t

\* Lines 78-84: the user message rewritten to combine the samples.
CombinedPrompt(msgs, n, samples) ==
    [msgs EXCEPT ![2].content =
        COMBINING_SAMPLES_PROMPT(msgs[2].content, n, combine_samples(samples), LANGUAGE)]

\* (mutant: the prompt as it was at the start is returned)
ReturnValueFirstTurns(msgs, post, report) ==
    [returned |-> TRUE, messages |-> SubSeq(msgs, 1, 2), test |-> post, report |-> report]

\* Lines 134-139.
ReturnValue(msgs, post, report) ==
    [returned |-> TRUE, messages |-> msgs, test |-> post, report |-> report]

\* _check_authentication (lines 325-328) raises: no API key is set.
_check_authentication(key) == key = NoneVal

\* (mutant: the model is not checked)
_check_model_never(m) == FALSE

\* _check_model (lines 329-332) raises: no model is selected.
_check_model(m) == m = NoneVal

\* Lines 51-52: _check_authentication, _check_model.
StartPipeline ==
    /\ pc = "idle"
    /\ \E n \in 1..MaxSamples, k \in 1..MaxIter, t \in Temps :
        /\ n_samples' = n /\ max_iter' = k /\ temp' = t
    /\ pc' = IF _check_authentication(api_key) \/ _check_model(model)
             THEN "raised" ELSE "draft"
    /\ UNCHANGED <<outside, script, daemon, sandbox, config, phase, messages, locals, result, history>>

\* Line 55: the initial request, then line 58.
InitialDraft ==
    /\ pc = "draft"
    /\ reqs' = Append(reqs, Request("initial", messages, n_samples, temp))
    /\ \/ /\ pc' = "raised"
          /\ UNCHANGED <<response, phase>>
       \/ \E r \in [1..n_samples -> Responses] :
            /\ response' = r
            /\ phase' = IF NeedsCombining(r) THEN "pre" ELSE "loop"
            /\ pc' = "inject"
    /\ UNCHANGED <<outside, script, daemon, sandbox, config, inputs, messages, idx, sample_results, iter,
                   resp_post, test_report, run_src, resp, result, runs>>

\* Lines 64-68 and 91-96 up to the file transfer of run_tests_in_container
\* (container_manager.py 254-272): postprocess, then put the file.
Inject ==
    /\ pc = "inject"
    /\ LET candidate == IF phase = "pre" THEN response[idx] ELSE response[1]
           post == postprocess_resp(candidate)
       IN  IF PostprocessRaises(candidate)
           THEN /\ pc' = "raised"
                /\ UNCHANGED <<files, resp_post, run_src, resp, runs>>
           ELSE /\ resp_post' = IF phase = "loop" THEN post ELSE resp_post
                /\ run_src' = post
                /\ resp' = NoResp
                /\ runs' = Append(runs, [phase |-> phase, src |-> post,
                                         done |-> FALSE, report |-> EmptyDict])
                /\ \/ /\ container # "removed"
                      /\ files' = [files EXCEPT !.test_source =
                                    [present |-> TRUE, lines |-> post, dict |-> EmptyDict]]
                      /\ pc' = "exec"
                   \/ /\ pc' = "raised"
                      /\ UNCHANGED files
    /\ UNCHANGED <<outside, script, daemon, container, close_raised, config, inputs, phase, messages,
                   response, idx, sample_results, iter, test_report, result, reqs>>

\* The script's __main__ (lines 141-147) on the injected file: the exit code
\* and the report file after it.
ScriptRun(src, json_ok, old_meta) ==
    LET out == run_tests_with_coverage_python(src, json_ok) IN
    IF out.kind = "return"
    THEN [exit_code |-> 0,
          meta |-> [present |-> TRUE, lines |-> <<>>, dict |-> out.test_metadata]]
    ELSE [exit_code |-> ExecModule(src).exc.exit_code, meta |-> old_meta]

\* container_manager.py 274-291: exec_run of the script, then the exit code.
Exec ==
    /\ pc = "exec"
    /\ \/ /\ container = "running"
          /\ files.test_source.present
          /\ \E json_ok \in BOOLEAN :
                LET r == ScriptRun(files.test_source.lines, json_ok, files.test_metadata)
                IN  /\ files' = [files EXCEPT !.test_metadata = r.meta]
                    /\ resp' = [present |-> TRUE, exit_code |-> r.exit_code]
                    /\ pc' = IF ExitCodeOk(r.exit_code) THEN "retrieve" ELSE "raised"
       \/ /\ pc' = "raised"
          /\ UNCHANGED <<files, resp>>
    /\ UNCHANGED <<outside, script, daemon, container, close_raised, config, inputs, phase, messages,
                   response, idx, sample_results, iter, resp_post, test_report,
                   run_src, result, history>>

\* container_manager.py 293-297: get the report file and parse it; then the
\* caller's lines up to its next call of the completion service or of the
\* sandbox (lines 69-75 for a sample, lines 98-131 and 134-139 in the loop).
Retrieve ==
    /\ pc = "retrieve"
    /\ \/ /\ pc' = "raised"
          /\ UNCHANGED <<messages, idx, sample_results, test_report, result, runs>>
       \/ /\ container # "removed"
          /\ files.test_metadata.present
          /\ LET report == files.test_metadata.dict IN
             /\ runs' = [runs EXCEPT ![Len(runs)].done = TRUE,
                                     ![Len(runs)].report = report]
             /\ IF phase = "pre"
                THEN /\ UNCHANGED <<messages, test_report, result>>
                     /\ IF Branch(report) = "KeyError"
                        THEN /\ pc' = "raised"
                             /\ UNCHANGED <<idx, sample_results>>
                        ELSE /\ sample_results' =
                                    Append(sample_results,
                                           <<response[idx], SampleResult(report)>>)
                             /\ idx' = idx + 1
                             /\ pc' = IF idx < Len(response) THEN "inject" ELSE "synth"
                ELSE /\ test_report' = report
                     /\ UNCHANGED <<idx, sample_results>>
                     /\ CASE Branch(report) = "KeyError" ->
                                /\ pc' = "raised"
                                /\ UNCHANGED <<messages, result>>
                          [] Branch(report) \in {"compile_error", "errors"} ->
                                /\ messages' = messages \o RepromptTurns(resp_post, report)
                                /\ pc' = "redraft"
                                /\ UNCHANGED result
                          [] OTHER ->
                                /\ pc' = "returned"
                                /\ result' = ReturnValue(messages, resp_post, report)
                                /\ UNCHANGED messages
    /\ UNCHANGED <<outside, script, daemon, sandbox, config, inputs, phase, response, iter, resp_post,
                   run_src, resp, reqs>>

\* Lines 78-84: rewrite the user message, ask for one combined response.
Synth ==
    /\ pc = "synth"
    /\ messages' = CombinedPrompt(messages, n_samples, sample_results)
    /\ reqs' = Append(reqs, Request("combine", messages', 1, temp))
    /\ \/ /\ pc' = "raised"
          /\ UNCHANGED <<response, phase>>
       \/ \E r \in Responses :
            /\ response' = <<r>>
            /\ phase' = "loop"
            /\ pc' = "inject"
    /\ UNCHANGED <<outside, script, daemon, sandbox, config, inputs, idx, sample_results, iter, resp_post,
                   test_report, run_src, resp, result, runs>>

\* Lines 110 and 126: the reprompt; then the loop header, and lines 134-139
\* when the loop is over.
Redraft ==
    /\ pc = "redraft"
    /\ reqs' = Append(reqs, Request("reprompt", messages, RepromptSamples, RepromptTemp(temp)))
    /\ \/ /\ pc' = "raised"
          /\ UNCHANGED <<response, iter, result>>
       \/ \E r \in Responses :
            /\ response' = [i \in 1..RepromptSamples |-> r]
            /\ iter' = iter + 1
            /\ IF LoopRange(iter + 1, max_iter)
               THEN /\ pc' = "inject"
                    /\ UNCHANGED result
               ELSE /\ pc' = "returned"
                    /\ result' = ReturnValue(messages, resp_post, test_report)
    /\ UNCHANGED <<outside, script, daemon, sandbox, config, inputs, phase, messages, idx, sample_results,
                   resp_post, test_report, run_src, resp, runs>>

\* ------------------------------------------------------ ContainerManager

\* get_container_status(): the status, or the text returned on NotFound.
get_container_status(c) == IF c = "removed" THEN "Container not found." ELSE c

\* container.remove() on this container raises docker.errors.NotFound.
RemoveRaises(c) == c = "removed"

\* The status of self.container, the container this manager created;
\* "removed" when the daemon no longer has it.
OwnStatus(dk, m) ==
    IF \E c \in dk.containers : c.id = m.container
    THEN (CHOOSE c \in dk.containers : c.id = m.container).status
    ELSE "removed"

\* ContainerManager.close_container (lines 299-303), called between requests.
close_container ==
    /\ pc \in {"idle", "returned", "raised"}
    /\ manager.container # 0
    /\ LET own == OwnStatus(docker, manager)
           stopped == IF get_container_status(container) = "running" /\ own # "removed"
                      THEN "exited" ELSE own
       IN  IF RemoveRaises(stopped)
           THEN /\ close_raised' = TRUE
                /\ UNCHANGED <<container, files, docker>>
           ELSE /\ close_raised' = FALSE
                /\ docker' = [docker EXCEPT
                                !.containers = {c \in @ : c.id # manager.container}]
                /\ container' = StatusByName(docker')
                /\ files' = [test_source |-> NoFile, test_metadata |-> NoFile]
    /\ UNCHANGED <<outside, script, manager, config, pc, phase, inputs, messages, locals, result, history>>

\* list_avaliable_images (lines 102-109): image.tags[0] of every image; an
\* image without tags makes it raise IndexError.
list_avaliable_images(dk) ==
    IF \E img \in dk.images : img.tags = <<>>
    THEN [exc |-> "IndexError", tags |-> {}]
    ELSE [exc |-> "", tags |-> {img.tags[1] : img \in dk.images}]

\* validate_image_name (lines 58-72): the exception it ends with, "" for none.
validate_image_name(dk, image_name) ==
    LET images == list_avaliable_images(dk)
    IN  IF images.exc # "" THEN images.exc
        ELSE IF image_name \notin images.tags THEN "ValueError"
        ELSE ""

\* Line 87: "if int(major) < 3 or int(minor) < 9"
VersionTooOld(major, minor) == major < 3 \/ minor < 9

\* validate_container_requirements (lines 74-90) on the python3 of the
\* container: the exception it ends with, "" for none.
validate_container_requirements(python) ==
    IF python = <<>> THEN "RuntimeError"
    ELSE IF VersionTooOld(python[1], python[2]) THEN "RuntimeError"
    ELSE ""

\* (mutant: a container of the name is left in place)
RemoveExistingNot(dk) == dk

\* start_container, lines 131-135: a container of the name is stopped if
\* it runs, and removed.
RemoveExisting(dk) == [dk EXCEPT !.containers = @ \ Sandboxes(dk)]

\* start_container (lines 119-151) for the image: create (the daemon
\* refuses a name that is taken), start, reload, check the status.
start_container(dk, image, starts) ==
    LET cleared == RemoveExisting(dk)
        new == Created(dk.next_id, image)
    IN  IF Sandboxes(cleared) # {}
        THEN [exc |-> "APIError", docker |-> cleared]
        ELSE [exc |-> IF starts THEN "" ELSE "RuntimeError",
              docker |-> [cleared EXCEPT
                            !.next_id = @ + 1,
                            !.containers =
                                @ \cup {[new EXCEPT !.status =
                                            IF starts THEN "running" ELSE "exited"]}]]

\* ContainerManager.__init__ (lines 32-56), as the GUI calls it: the new
\* object replaces the old one when the construction succeeds.
ContainerManager ==
    /\ pc = "idle"
    /\ manager.calls < MaxStarts
    /\ \E image_name \in {image_asked}, starts \in BOOLEAN :
        LET invalid == validate_image_name(docker, image_name)
            image == CHOOSE img \in docker.images : img.tags # <<>> /\ img.tags[1] = image_name
            started == start_container(docker, image, starts)
            unfit == validate_container_requirements(image.python)
            exc == IF invalid # "" THEN invalid
                   ELSE IF started.exc # "" THEN started.exc
                   ELSE unfit
        IN  /\ docker' = IF invalid # "" THEN docker ELSE started.docker
            /\ container' = StatusByName(docker')
            /\ files' = IF invalid # "" THEN files
                        ELSE [test_source |-> NoFile, test_metadata |-> NoFile]
            /\ manager' = IF exc = ""
                          THEN [container |-> docker.next_id, image_name |-> image_name,
                                exc |-> "", calls |-> manager.calls + 1]
                          ELSE [manager EXCEPT !.exc = exc, !.calls = @ + 1]
    /\ UNCHANGED <<outside, script, close_raised, config, pc, phase, inputs, messages, locals,
                   result, history>>

\* The images a daemon may hold: the image asked for or not, with any
\* python3; an untagged image or not.
ImageSets ==
    {asked \cup untagged :
        asked \in {{}} \cup {{Image(<<image_asked>>, v)} : v \in Versions},
        untagged \in {{}, {Image(<<>>, <<3, 9>>)}}}

\* What an earlier session may have left: nothing, or its container.
Leftovers ==
    {{}} \cup {{[Created(1, Image(<<image_asked>>, <<3, 9>>)) EXCEPT !.status = st]} :
                    st \in {"running", "exited"}}

RequestIdle ==
    /\ api_key = NoneVal /\ model = NoneVal
    /\ script = NoScript
    /\ files = [test_source |-> NoFile, test_metadata |-> NoFile]
    /\ close_raised = FALSE
    /\ pc = "idle"
    /\ phase = "loop"
    /\ n_samples = 1 /\ max_iter = 1 /\ temp = 1
    /\ messages = InitialPrompt
    /\ response = <<>>
    /\ idx = 1
    /\ sample_results = <<>>
    /\ iter = 0
    /\ resp_post = <<>>
    /\ test_report = EmptyDict
    /\ run_src = <<>>
    /\ resp = NoResp
    /\ result = NoResult
    /\ reqs = <<>>
    /\ runs = <<>>

\* The application starts: no ContainerManager yet, the daemon as it is.
LifecycleInit ==
    /\ RequestIdle
    /\ AggregatorIdle
    /\ BuilderIdle
    /\ DatabaseIdle
    /\ \E images \in ImageSets, left \in Leftovers :
        docker = [images |-> images, containers |-> left, next_id |-> 2]
    /\ container = StatusByName(docker)
    /\ manager = [container |-> 0, image_name |-> NoneVal, exc |-> "", calls |-> 0]

\* Sandboxes started and closed.
LifecycleNext ==
    \/ ContainerManager
    \/ close_container

LifecycleSpec == LifecycleInit /\ [][LifecycleNext]_vars

\* One generation request against a running sandbox.
Next ==
    \/ StartPipeline
    \/ InitialDraft
    \/ Inject
    \/ Exec
    \/ Retrieve
    \/ Synth
    \/ Redraft

Spec == Init /\ [][Next]_vars

\* A session: a generation request, and the sandbox closed before or after it.
SessionNext ==
    \/ StartPipeline
    \/ InitialDraft
    \/ Inject
    \/ Exec
    \/ Retrieve
    \/ Synth
    \/ Redraft
    \/ close_container

SessionSpec == Init /\ [][SessionNext]_vars

\* --------------------------------------------- utils.py: coverage aggregator

\* The lines a module under test is made of.
def_line == "def obj():"
body_line == "    return 1"
blank_line == ""
stmt_line == "x = 1"
SourceLines == {def_line, body_line, blank_line, stmt_line}

\* str.strip() of a line.
strip(l) == IF l = body_line THEN "return 1" ELSE l

\* text.split("\n") of a text whose lines all end with a newline (what
\* inspect.getsource returns): the lines, then one empty string.
split_newline(text) == text \o <<"">>

\* A module that compiles and defines obj: every def line is followed by
\* its body, and a body line follows a def line or a body line.
IsModule(m) ==
    /\ \E i \in 1..Len(m) : m[i] = def_line
    /\ \A i \in 1..Len(m) :
        /\ m[i] = def_line => (i < Len(m) /\ m[i + 1] = body_line)
        /\ m[i] = body_line => (i > 1 /\ m[i - 1] \in {def_line, body_line})

Modules ==
    {m \in UNION {[1..n -> SourceLines] : n \in 1..MaxModuleLen} : IsModule(m)}

\* inspect.getsource of the object named obj: the block of its last
\* definition, from the def line to the last line of the body.
retrieve_func_source(m) ==
    LET st == CHOOSE i \in 1..Len(m) :
                m[i] = def_line /\ \A j \in (i + 1)..Len(m) : m[j] # def_line
        en == CHOOSE q \in st..Len(m) :
                /\ \A j \in (st + 1)..q : m[j] = body_line
                /\ (q = Len(m) \/ m[q + 1] # body_line)
    IN  SubSeq(m, st, en)

ObjectTypes == {"function", "class", "class method"}

\* _retrieve_source: the adapter's source of the object for the three
\* object types, ValueError for any other.  The selected object is the
\* block named obj whatever its type.
_retrieve_source(object_type, m) ==
    IF object_type \in ObjectTypes
    THEN [kind |-> "return", source |-> retrieve_func_source(m)]
    ELSE [kind |-> "raise", source |-> <<>>]

\* The for-loop of find_lines from this index on (1-based): the index of
\* the first match, 0 when the loop ends without a match.
RECURSIVE find_lines_loop(_, _, _)
find_lines_loop(lines, target_lines, index) ==
    IF index > Len(lines) THEN 0
    ELSE IF /\ lines[index] = target_lines[1]
            /\ Slice(lines, index - 1, index - 1 + Len(target_lines)) = target_lines
    THEN index
    ELSE find_lines_loop(lines, target_lines, index + 1)

\* (mutant: the end line is that of the last source line)
EndLineWithoutTrail(start_line, target_lines) == start_line + Len(target_lines) - 2

\* Line 148: end_line = start_line + len(target_lines) - 1
EndLine(start_line, target_lines) == start_line + Len(target_lines) - 1

Raise(fn, object_type, exc) ==
    [fn |-> fn, object_type |-> object_type, kind |-> "raise", exc |-> exc,
     start_line |-> 0, end_line |-> 0, value |-> 0]

\* utils.find_lines.  When no block matches, start_line is never bound and
\* the return statement raises UnboundLocalError.
find_lines(object_type, adapter, m) ==
    IF adapter = NoneVal THEN Raise("find_lines", object_type, "ValueError")
    ELSE IF _retrieve_source(object_type, m).kind = "raise"
    THEN Raise("find_lines", object_type, "ValueError")
    ELSE LET obj_source == _retrieve_source(object_type, m).source
             target == split_newline(obj_source)
             target_lines == [i \in 1..Len(target) |-> strip(target[i])]
             mod == split_newline(m)
             lines == [i \in 1..Len(mod) |-> strip(mod[i])]
             index == find_lines_loop(lines, target_lines, 1)
         IN  IF index = 0 THEN Raise("find_lines", object_type, "UnboundLocalError")
             ELSE [fn |-> "find_lines", object_type |-> object_type,
                   kind |-> "return", exc |-> "",
                   start_line |-> index,
                   end_line |-> EndLine(index, target_lines),
                   value |-> 0]

\* In one test run a line is executed or missing, never both.
NotRecords ==
    {r \in [executed_lines : SUBSET (1..MaxLine), missing_lines : SUBSET (1..MaxLine)] :
        r.executed_lines \cap r.missing_lines # {}}

\* A stored record: the executed and the missing lines of one test run.
Records ==
    {[executed_lines |-> e, missing_lines |-> mi] :
        e \in SUBSET (1..MaxLine), mi \in SUBSET (1..MaxLine)} \ NotRecords

\* (mutant: the missing lines keep the lines another record executed)
MissingKeepExecuted(miss, execs) == miss

\* Line 109: miss = miss.difference(execs)
MissingMinusExecuted(miss, execs) == miss \ execs

\* collect_executed_missing_lines, given the range find_lines returned.
collect_executed_missing_lines(st, end, records) ==
    LET execs == {it \in UNION {records[i].executed_lines : i \in 1..Len(records)} :
                    st <= it /\ it <= end}
        miss == {it \in UNION {records[i].missing_lines : i \in 1..Len(records)} :
                    st <= it /\ it <= end}
    IN  [executed |-> execs, missing |-> MissingMinusExecuted(miss, execs)]

\* int(e / (e + m) * 100) for e + m > 0.  The float product is below the
\* exact value for some pairs (the smallest: e = 29, m = 21 gives 57, not
\* 58); for e + m < 50 it truncates to the exact floor.
int_percent(e, m) == (e * 100) \div (e + m)

\* (mutant: no records means a call of find_lines as well)
NoRecordsNever(records) == FALSE

\* Line 84: "if not test_metadata"
NoRecords(records) == records = <<>>

\* utils.compute_coverage
compute_coverage(object_type, records, adapter, m) ==
    IF NoRecords(records)
    THEN [fn |-> "compute_coverage", object_type |-> object_type, kind |-> "return",
          exc |-> "", start_line |-> 0, end_line |-> 0, value |-> 0]
    ELSE LET fl == find_lines(object_type, adapter, m) IN
         IF fl.kind = "raise" THEN Raise("compute_coverage", object_type, fl.exc)
         ELSE LET c == collect_executed_missing_lines(fl.start_line, fl.end_line, records)
                  e == Cardinality(c.executed)
                  mi == Cardinality(c.missing)
              IN  IF e + mi = 0
                  THEN Raise("compute_coverage", object_type, "ZeroDivisionError")
                  ELSE [fn |-> "compute_coverage", object_type |-> object_type,
                        kind |-> "return", exc |-> "",
                        start_line |-> fl.start_line, end_line |-> fl.end_line,
                        value |-> int_percent(e, mi)]

\* The object types a caller may pass.
CallObjectTypes == ObjectTypes \cup {"module"}

\* utils.set_adapter("python", module_dir)
set_adapter ==
    /\ ADAPTER = NoneVal
    /\ ADAPTER' = "PythonAdapter"
    /\ UNCHANGED <<pipeline, database, builder, module_source, test_metadata, call>>

CallFindLines ==
    /\ \E object_type \in CallObjectTypes :
        call' = find_lines(object_type, ADAPTER, module_source)
    /\ UNCHANGED <<pipeline, database, builder, ADAPTER, module_source, test_metadata>>

CallComputeCoverage ==
    /\ \E object_type \in CallObjectTypes :
        call' = compute_coverage(object_type, test_metadata, ADAPTER, module_source)
    /\ UNCHANGED <<pipeline, database, builder, ADAPTER, module_source, test_metadata>>

\* A module, the records stored for its object, no adapter set yet; no
\* generation request.
AggregatorInit ==
    /\ PipelineInit /\ api_key = NoneVal /\ model = NoneVal
    /\ DatabaseIdle
    /\ BuilderIdle
    /\ ADAPTER = NoneVal
    /\ module_source \in Modules
    /\ test_metadata \in UNION {[1..n -> Records] : n \in 0..MaxRecords}
    /\ call = NoCall

AggregatorNext ==
    \/ set_adapter
    \/ CallFindLines
    \/ CallComputeCoverage

AggregatorSpec == AggregatorInit /\ [][AggregatorNext]_vars

\* ------------------------------ python_adapter.py: analyser, prompt builder

\* sep.join(list)
RECURSIVE join(_, _)
join(sep, list) ==
    IF list = <<>> THEN ""
    ELSE IF Len(list) = 1 THEN list[1]
    ELSE list[1] \o sep \o join(sep, Tail(list))

\* A called name is the tuple of its dotted parts: inst.run is <<"inst", "run">>.
\* What visiting a function body adds to the visitor: the names visit_Call
\* and visit_Assign collect in func_names, the bindings "name = Class()"
\* they collect in instances (pairs <<name, class>>).
NoBody == [calls |-> {}, instances |-> {}]
\* helper(); print()
CallsHelper == [calls |-> {<<"helper">>, <<"print">>}, instances |-> {}]
\* inst = Cls(); inst.run()
CallsInstance == [calls |-> {<<"inst", "run">>}, instances |-> {<<"inst", "Cls">>}]
\* self.step(); len()
CallsSelf == [calls |-> {<<"self", "step">>, <<"len">>}, instances |-> {}]

\* inst = Cls(); inst.step()  (inside a method)
CallsInstanceStep == [calls |-> {<<"inst", "step">>}, instances |-> {<<"inst", "Cls">>}]

FunctionBodies == {NoBody, CallsHelper, CallsInstance}
MethodBodies == {NoBody, CallsSelf, CallsInstanceStep}

\* A function or method definition node: its name, its first parameter
\* (node.args.args[0].arg, "" when it has none) and its body.
FuncNode(name, first_arg, body) == [name |-> name, first_arg |-> first_arg, body |-> body]

\* Body-level assignments of a module: the statement, its target and the
\* name it calls on the right-hand side ("" when it is no call).
NoAssignments == <<>>
PlainAssignment == <<[text |-> "x = 1", target |-> "x", callee |-> ""]>>
HelperAssignment == <<[text |-> "h = helper()", target |-> "h", callee |-> "helper"]>>
HelperAssignmentTwoLetters ==
    <<[text |-> "ab = helper()", target |-> "ab", callee |-> "helper"]>>
\* inst = Other() at module level: an instance of a class of the module
InstanceAssignment == <<[text |-> "inst = Other()", target |-> "inst", callee |-> "Other"]>>
Assignments ==
    {NoAssignments, PlainAssignment, HelperAssignment, HelperAssignmentTwoLetters,
     InstanceAssignment}

\* The classes a module may define: none, Cls without and with __init__.
NoClasses == <<>>
ClassBodies ==
    {[name |-> "Cls", attributes |-> a,
      methods |-> ini \o <<FuncNode("run", "self", b), FuncNode("step", "self", NoBody)>>] :
        a \in {<<>>, <<"limit = 3">>},
        ini \in {<<>>, <<FuncNode("__init__", "self", NoBody)>>},
        b \in MethodBodies}

\* A second class, with a method named as one of Cls.
OtherClass ==
    [name |-> "Other", attributes |-> <<>>, methods |-> <<FuncNode("run", "self", NoBody)>>]

\* The modules a user may select: the function obj, maybe the function
\* helper, maybe the class Cls, maybe the class Other with an instance of
\* it, imports, imported constants, assignments.
SourcedModules ==
    {mod \in [functions : {<<FuncNode("obj", "a", b)>> : b \in FunctionBodies}
                            \cup {<<FuncNode("obj", "a", b), FuncNode("helper", "", NoBody)>> :
                                    b \in FunctionBodies},
              classes : {NoClasses} \cup {<<c>> : c \in ClassBodies}
                            \cup {<<c, OtherClass>> : c \in ClassBodies},
              imports : {<<>>, <<"import os">>, <<"from math import pi">>},
              constants : {<<>>, <<[name |-> "pi: float", value |-> "3.141592653589793"]>>},
              assignments : Assignments] :
        \* an imported constant comes with its import
        /\ (mod.constants # <<>>) <=> (mod.imports = <<"from math import pi">>)
        \* the module can be imported: what it calls at body level is defined
        /\ \A i \in 1..Len(mod.assignments) :
                mod.assignments[i].callee = "helper" => Len(mod.functions) = 2
        \* the class Other is defined exactly where the module instantiates it
        /\ (Len(mod.classes) = 2) <=> (mod.assignments = InstanceAssignment)}

Names(nodes) == [i \in 1..Len(nodes) |-> nodes[i].name]

\* CodeAnalyser.__init__ (lines 501-576) on a sourced module.
CodeAnalyser(mod) ==
    LET body_class_names == Names(mod.classes)
        body_func_names == Names(mod.functions)
        IsLocalCall(a) == In(a.callee, body_func_names \o body_class_names)
        typed == SelectSeq(mod.assignments, IsLocalCall)
    IN  [analysed |-> TRUE,
         body_class_nodes |-> mod.classes,
         body_class_names |-> body_class_names,
         body_func_nodes |-> mod.functions,
         body_func_names |-> body_func_names,
         import_statements |-> mod.imports,
         modules_local |-> <<>>,
         imported_constants |-> mod.constants,
         variables |-> [i \in 1..Len(mod.assignments) |-> mod.assignments[i].text],
         \* a dict: target -> type(getattr(module, target))
         local_type_variables |->
            [i \in 1..Len(typed) |->
                [key |-> typed[i].target,
                 value |-> IF In(typed[i].callee, body_class_names)
                           THEN "<class 'mod." \o typed[i].callee \o "'>"
                           ELSE "<class 'NoneType'>"]],
         \* lines 568-575: the instances the visitor found at body level
         body_instances |->
            {<<mod.assignments[i].target, mod.assignments[i].callee>> :
                i \in {j \in 1..Len(mod.assignments) :
                            In(mod.assignments[j].callee, body_class_names)}}]

\* ------------------------------------- templates.py: the numbered info sheet

\* One numbered point of the info sheet: "{number}. {heading}\n{content}".
Section(number, heading, content) ==
    [number |-> number, heading |-> heading, content |-> content]

\* (mutant: the imports point is written whatever its content)
ImportsGivenAlways(imports) == TRUE

\* Line 126: "if imports"
ImportsGiven(imports) == TruthyStr(imports)

\* templates.generate_python_info_sheet (lines 100-157): the points in the
\* order they are written.  init and class_attributes may be None.
generate_python_info_sheet(object_type, imports, constants, variables, local_type_variables, local_call_defs, init, class_attributes) ==
    LET is_method == object_type = "method"
        location == <<Section(1, "is defined in the module called:", "")>>
        p_init == IF is_method /\ TruthyStr(init)
                  THEN <<Section(2, "Class __init__ definition", init)>> ELSE <<>>
        n1 == 2 + Len(p_init)
        \* line 118: the number of this point is written out, "3."
        p_attr == IF is_method /\ TruthyStr(class_attributes)
                  THEN <<Section(3, "attributes:", class_attributes)>>
                  ELSE <<>>
        n2 == n1 + Len(p_attr)
        p_imp == IF ImportsGiven(imports)
                 THEN <<Section(n2, "Following imports were made", imports)>> ELSE <<>>
        n3 == n2 + Len(p_imp)
        p_con == IF TruthyStr(constants)
                 THEN <<Section(n3, "Following constants were imported", constants)>>
                 ELSE <<>>
        n4 == n3 + Len(p_con)
        p_var == IF TruthyStr(variables)
                 THEN <<Section(n4, "Following variables were decleared", variables)>>
                 ELSE <<>>
        n5 == n4 + Len(p_var)
        p_typ == IF local_type_variables # ""
                 THEN <<Section(n5, "Additionally variable types", local_type_variables)>>
                 ELSE <<>>
        n6 == n5 + Len(p_typ)
        p_def == IF local_call_defs # ""
                 THEN <<Section(n6, "Definitons of functions used", local_call_defs)>>
                 ELSE <<>>
    IN  location \o p_init \o p_attr \o p_imp \o p_con \o p_var \o p_typ \o p_def

\* What a caller may pass for each argument.
SheetObjectTypes == {"function", "method"}
InitGiven == {NoneVal, "", "def __init__(self): self.n = 0"}
AttributesGiven == {NoneVal, "", "limit = 3"}
ImportsTexts == {"", "import os"}
ConstantsTexts == {"", "PI: float=3.14"}
VariablesTexts == {"", "x = 1"}
TypesTexts == {"", "h: <class 'mod.Helper'>"}
DefsTexts == {"", "Definition for helper:"}

SheetArgs ==
    [object_type : SheetObjectTypes, init : InitGiven,
     class_attributes : AttributesGiven, imports : ImportsTexts,
     constants : ConstantsTexts, variables : VariablesTexts,
     local_type_variables : TypesTexts, local_call_defs : DefsTexts]

\* A call of generate_python_info_sheet.
CallInfoSheet ==
    /\ \E a \in SheetArgs :
        built' = [NoBuilt EXCEPT
                    !.fn = "generate_python_info_sheet", !.args = a, !.kind = "return",
                    !.info_sheet =
                        generate_python_info_sheet(
                            a.object_type, a.imports, a.constants, a.variables,
                            a.local_type_variables, a.local_call_defs,
                            a.init, a.class_attributes)]
    /\ UNCHANGED <<pipeline, database, aggregator, unit, visitor>>

SheetNext == CallInfoSheet

\* No module selected, no generation request: the template alone.
SheetInit == Init /\ api_key = NoneVal /\ model = NoneVal

SheetSpec == SheetInit /\ [][SheetNext]_vars

\* The visitor after CodeAnalyser.__init__ has visited the body-level
\* statements: the imports, and the names called in assignments.
VisitorAfterInit(mod) ==
    [import_statements |-> mod.imports,
     modules |-> IF mod.imports = <<>> THEN {}
                 ELSE IF mod.imports = <<"import os">> THEN {<<"os", "os">>}
                 ELSE {<<"pi", "math">>},
     func_names |-> {<<mod.assignments[i].callee>> :
                        i \in {j \in 1..Len(mod.assignments) :
                                    /\ mod.assignments[j].callee # ""
                                    /\ ~In(mod.assignments[j].callee, Names(mod.classes))}},
     instances |-> {<<mod.assignments[i].target, mod.assignments[i].callee>> :
                        i \in {j \in 1..Len(mod.assignments) :
                                    In(mod.assignments[j].callee, Names(mod.classes))}}]

\* (mutant: the attributes of the visitor are kept)
restore_visitor_keeps(v) == v

\* AstVisitor.restore_visitor (lines 492-497)
restore_visitor(v) == NewVisitor

\* dict.update on dicts kept as sets of <<key, value>> pairs.
update(d, e) == {p \in d : \A q \in e : q[1] # p[1]} \cup e
keys(d) == {p[1] : p \in d}
get(d, k) == (CHOOSE p \in d : p[1] = k)[2]

\* The bindings "name = Class()" of a body where _is_class finds the class
\* in the module (visit_Assign, lines 443-447).
Bound(u, node) == {p \in node.body.instances : In(p[2], u.body_class_names)}

\* self.ast_visitor.visit(node) on a function or method node: a binding to
\* a name that is no class of the module is collected as a called name.
visit(u, v, node) ==
    [v EXCEPT !.func_names = @ \cup node.body.calls
                               \cup {<<p[2]>> : p \in node.body.instances \ Bound(u, node)},
              !.instances = update(@, Bound(u, node))]

\* '.'.join(splits)
dotted(nm) == join(".", nm)

\* (mutant: the bindings of the module body are written over the local ones)
InstancesOuterLast(body_instances, local) == update(local, body_instances)

\* lines 776-777: instances = self.body_instances.copy();
\* instances.update(self.ast_visitor.instances)
Instances(body_instances, local) == update(body_instances, local)

\* CodeAnalyser.get_local_calls (lines 749-805): the visitor after the
\* call and the set returned.
get_local_calls(u, v, node, method, class_name) ==
    LET v1 == visit(u, restore_visitor(v), node)
        call_names == v1.func_names
        instances == Instances(u.body_instances, v1.instances)
        swap(nm) ==
            IF Len(nm) > 1
            THEN IF method
                 THEN IF nm[1] = node.first_arg THEN <<class_name>> \o Tail(nm) ELSE nm
                 ELSE IF nm[1] \in keys(instances)
                      THEN <<get(instances, nm[1])>> \o Tail(nm) ELSE nm
            ELSE nm
        swapped == {swap(nm) : nm \in call_names}
        local_classes == u.modules_local \o u.body_class_names
        local_functions == u.modules_local \o u.body_func_names
    IN  [visitor |-> v1,
         local_calls |->
            {nm \in swapped :
                /\ In(dotted(nm), local_functions) \/ In(nm[1], local_classes)
                /\ dotted(nm) # node.name}]

\* The methods of the class named so, as nodes; <<>> when there is none.
MethodNodes(u, class_name) ==
    IF In(class_name, u.body_class_names)
    THEN u.body_class_nodes[IndexOf(class_name, u.body_class_names)].methods
    ELSE <<>>

\* _has_init(class_name, sourced_module)
_has_init(u, class_name) == In("__init__", Names(MethodNodes(u, class_name)))

\* _trace_call finds the source of the call: a function or class of the
\* module, or a method of one of its classes.
Traceable(u, nm) ==
    \/ Len(nm) = 1 /\ In(nm[1], u.body_func_names \o u.body_class_names)
    \/ Len(nm) = 2 /\ In(nm[2], Names(MethodNodes(u, nm[1])))

\* CodeAnalyser.get_local_defs_str (lines 807-851); the calls are taken in
\* some order, as a Python set gives them.
RECURSIVE get_local_defs_str(_, _)
get_local_defs_str(u, local_calls) ==
    IF local_calls = {} THEN ""
    ELSE LET nm == CHOOSE c \in local_calls : TRUE
             text == IF ~Traceable(u, nm) THEN ""
                     ELSE IF Len(nm) = 2
                     THEN "Method Definition for " \o dotted(nm) \o ":\n"
                     ELSE "Definition for " \o dotted(nm) \o ":\n"
         IN  text \o get_local_defs_str(u, local_calls \ {nm})

\* "for k, v in d" over a dict d unpacks each key, a str, into k and v: it
\* works for a key of two characters and raises ValueError for any other.
Characters(key) ==
    CASE key = "ab" -> <<"a", "b">>
      [] key = "h" -> <<"h">>
      [] OTHER -> <<key>>
UnpackRaises(d) == \E i \in 1..Len(d) : Len(Characters(d[i].key)) # 2

RaisedBuilt(fn, a, exc, v) ==
    [visitor |-> v,
     built |-> [NoBuilt EXCEPT !.fn = fn, !.args = a, !.kind = "raise", !.exc = exc]]

\* _prepare_prompt_function (lines 254-310) and _prepare_prompt_method
\* (lines 169-252) from the node on: the strings of the sections, the local
\* calls, the sheet and the two messages.
PreparePromptFor(u, v, a, node, is_method) ==
    LET init == IF is_method /\ _has_init(u, a.object_name) /\ a.method_name # "__init__"
                THEN "def __init__(self): ..." ELSE NoneVal
        class_attributes_str ==
            IF is_method
            THEN join("\n", u.body_class_nodes[IndexOf(a.object_name, u.body_class_names)].attributes)
            ELSE NoneVal
        imports_str == join("\n", u.import_statements)
        constants_str ==
            join("\n", [i \in 1..Len(u.imported_constants) |->
                            u.imported_constants[i].name \o "=" \o u.imported_constants[i].value])
        variables_str == join("\n", u.variables)
        local_type_variables_str ==
            join("\n", [i \in 1..Len(u.local_type_variables) |->
                            Characters(u.local_type_variables[i].key)[1] \o ": "
                                \o Characters(u.local_type_variables[i].key)[2]])
        glc == get_local_calls(u, v, node, is_method, a.object_name)
        info_sheet ==
            generate_python_info_sheet(
                IF is_method THEN "method" ELSE "function",
                imports_str, constants_str, variables_str, local_type_variables_str,
                get_local_defs_str(u, glc.local_calls), init, class_attributes_str)
    IN  IF UnpackRaises(u.local_type_variables)
        THEN RaisedBuilt("prepare_prompt", a, "ValueError", v)
        ELSE [visitor |-> glc.visitor,
              built |-> [NoBuilt EXCEPT
                    !.fn = "prepare_prompt", !.args = a, !.kind = "return",
                    !.info_sheet = info_sheet,
                    !.local_calls = glc.local_calls,
                    !.messages =
                        <<[role |-> "system", content |-> "Generate high-quality comprehensive unit tests"],
                          [role |-> "user", content |-> "Definition:"]>>]]

\* retrieve_func_node (lines 599-610): method_names.index(method) finds it.
MethodKnown(u, class_name, method_name) ==
    In(method_name, Names(MethodNodes(u, class_name)))

\* PythonAdapter.prepare_prompt (lines 312-341) with the analyser u and its
\* visitor v; a = [object_name, method_name], method_name "None" when not given.
prepare_prompt(u, v, a) ==
    IF ~In(a.object_name, u.body_func_names \o u.body_class_names)
    THEN RaisedBuilt("prepare_prompt", a, "ValueError", v)
    ELSE IF In(a.object_name, u.body_func_names) /\ a.method_name = NoneVal
    THEN PreparePromptFor(u, v, a,
            u.body_func_nodes[IndexOf(a.object_name, u.body_func_names)], FALSE)
    ELSE IF In(a.object_name, u.body_class_names) /\ a.method_name # NoneVal
    THEN IF ~MethodKnown(u, a.object_name, a.method_name)
         THEN RaisedBuilt("prepare_prompt", a, "ValueError", v)
         ELSE LET ms == MethodNodes(u, a.object_name)
                  k == IF In(a.method_name, Names(ms)) THEN IndexOf(a.method_name, Names(ms)) ELSE 1
              IN  PreparePromptFor(u, v, a, ms[k], TRUE)
    ELSE RaisedBuilt("prepare_prompt", a, "ValueError", v)

\* What a caller may ask a prompt for.
ObjectNames == {"obj", "helper", "Cls", "nothing"}
MethodNames == {NoneVal, "run", "__init__", "absent"}

CallPreparePrompt ==
    /\ unit.analysed
    /\ \E a \in [object_name : ObjectNames, method_name : MethodNames] :
        LET out == prepare_prompt(unit, visitor, a)
        IN  built' = out.built /\ visitor' = out.visitor
    /\ UNCHANGED <<pipeline, database, aggregator, unit>>

\* The function and method nodes of the unit, as get_local_calls is given them.
Targets(u) ==
    {[node |-> u.body_func_nodes[i], method |-> FALSE, class_name |-> NoneVal] :
        i \in 1..Len(u.body_func_nodes)}
    \cup UNION {{[node |-> u.body_class_nodes[c].methods[i], method |-> TRUE,
                  class_name |-> u.body_class_names[c]] :
                    i \in 1..Len(u.body_class_nodes[c].methods)} :
                c \in 1..Len(u.body_class_nodes)}

CallGetLocalCalls ==
    /\ unit.analysed
    /\ \E t \in Targets(unit) :
        LET out == get_local_calls(unit, visitor, t.node, t.method, t.class_name)
        IN  /\ visitor' = out.visitor
            /\ built' = [NoBuilt EXCEPT !.fn = "get_local_calls", !.args = t,
                            !.kind = "return", !.local_calls = out.local_calls]
    /\ UNCHANGED <<pipeline, database, aggregator, unit>>

\* A module was selected and set_adapter built its analyser; no generation
\* request yet.
BuilderInit ==
    /\ PipelineInit /\ api_key = NoneVal /\ model = NoneVal
    /\ DatabaseIdle
    /\ AggregatorIdle
    /\ \E mod \in SourcedModules :
        /\ unit = CodeAnalyser(mod)
        /\ visitor = VisitorAfterInit(mod)
    /\ built = NoBuilt

BuilderNext ==
    \/ CallPreparePrompt
    \/ CallGetLocalCalls

BuilderSpec == BuilderInit /\ [][BuilderNext]_vars

\* ------------------------------------------------ db_manager.py: DBManager

\* (mutant: the counter is set to the number passed)
Overwritten(old, by) == by

\* Line 96: "input_tokens=input_tokens+?"
Incremented(old, by) == old + by

\* DBManager.update_token_count (lines 80-104): UPDATE ... WHERE model=?
update_token_count(d, m, input_tokens, output_tokens) ==
    [d EXCEPT !.token_usage =
        {IF r.model = m
         THEN [r EXCEPT !.input_tokens = Incremented(@, input_tokens),
                        !.output_tokens = Incremented(@, output_tokens)]
         ELSE r : r \in @}]

\* The row of token_usage for the model.
UsageOf(d, m) == CHOOSE r \in d.token_usage : r.model = m

\* The model names a caller may pass: those of the table and one it lacks.
ModelNames == {MODELS[i] : i \in 1..Len(MODELS)} \cup {"davinci"}

CallUpdateTokenCount ==
    /\ \E m \in ModelNames, i \in 0..MaxTokens, o \in 0..MaxTokens :
        /\ \A r \in db.token_usage :
                r.model = m => (r.input_tokens + i <= MaxTokens /\ r.output_tokens + o <= MaxTokens)
        /\ db' = update_token_count(db, m, i, o)
        /\ query' = [NoQuery EXCEPT !.fn = "update_token_count", !.args = <<m, i, o>>,
                                    !.kind = "return"]
    /\ UNCHANGED <<pipeline, aggregator, builder>>

\* A database just created; token usage is counted.
TokenInit == Init /\ api_key = NoneVal /\ model = NoneVal

TokenNext == CallUpdateTokenCount

TokenSpec == TokenInit /\ [][TokenNext]_vars

\* A JSON text: how it is laid out and the value it stands for.
\* json.loads gives the value; json.dumps writes it in the default layout.
json_loads(text) == text.value
json_dumps(value) == [layout |-> "default", value |-> value]

\* The chat history stored with a test: the prompt, then the response.
History(test) ==
    <<[role |-> "user", content |-> "Function Definition:"],
      [role |-> "assistant", content |-> test]>>

\* INTEGER PRIMARY KEY: the id of a new row is one more than the largest.
RECURSIVE Max(_)
Max(ids) ==
    IF ids = {} THEN 0
    ELSE LET x == CHOOSE i \in ids : TRUE
             rest == Max(ids \ {x})
         IN  IF x > rest THEN x ELSE rest
NextId(d) == Max({r.id : r \in d.tests}) + 1

\* DBManager.add_test_to_db (lines 307-338); class_name "None" is stored as NULL.
add_test_to_db(d, module, class_name, object_name, chat, test, metadata) ==
    [d EXCEPT !.tests = @ \cup
        {[id |-> NextId(d), module |-> module, class |-> class_name,
          object |-> object_name, history |-> chat, test |-> test,
          metadata |-> metadata]}]

\* DBManager.get_row_by_id (lines 106-122): the rows of the id, none or one.
get_row_by_id(d, id) == {r \in d.tests : r.id = id}

\* (mutant: the new content is appended as one more entry)
EditedHistoryAppended(chat, test) ==
    Append(chat, [role |-> "assistant", content |-> test])

\* Line 267: the last entry of the history gets the new content.
EditedHistory(chat, test) ==
    [chat EXCEPT ![Len(chat)] = [@ EXCEPT !.content = test]]

\* DBManager.edit_test_in_db (lines 254-275): the exception it ends with
\* ("" for none) and the database after it.
edit_test_in_db(d, id, test) ==
    IF get_row_by_id(d, id) = {}
    THEN [exc |-> "TypeError", db |-> d]
    ELSE LET data == CHOOSE r \in get_row_by_id(d, id) : TRUE
             chat == json_loads(data.history)
         IN  IF chat = <<>>
             THEN [exc |-> "IndexError", db |-> d]
             ELSE [exc |-> "",
                   db |-> [d EXCEPT !.tests =
                            {IF r.id = id
                             THEN [r EXCEPT !.test = test,
                                            !.history = json_dumps(EditedHistory(chat, test))]
                             ELSE r : r \in @}]]

\* DBManager.delete_row_from_db (lines 292-305)
delete_row_from_db(d, id) == [d EXCEPT !.tests = {r \in @ : r.id # id}]

\* (mutant: the class of a row is not looked at)
IsNullOrNot(x) == TRUE

\* SQL "class is NULL"
IsNull(x) == x = NoneVal

\* SQL "column=?": a NULL on either side compares as unknown, not as true.
SqlEquals(column, param) == column # NoneVal /\ param # NoneVal /\ column = param

\* DBManager.get_rows_by_function_name (lines 171-190)
get_rows_by_function_name(d, function_name) ==
    {r \in d.tests : SqlEquals(r.object, function_name) /\ IsNull(r.class)}

\* DBManager.get_rows_by_method_name (lines 142-169)
get_rows_by_method_name(d, class_name, method) ==
    {r \in d.tests : SqlEquals(r.class, class_name) /\ SqlEquals(r.object, method)}

\* The objects tests are stored for: a function and a method of one name,
\* and another method.
StoredObjects == {<<NoneVal, "run">>, <<"Cls", "run">>, <<"Cls", "step">>}
TestTexts == {"test v1", "test v2"}
Layouts == {"default", "indented"}

CallAddTest ==
    /\ Cardinality(db.tests) < MaxRows
    /\ NextId(db) <= MaxRows + 1
    /\ \E o \in StoredObjects, layout \in Layouts :
        /\ db' = add_test_to_db(db, "mod", o[1], o[2],
                                [layout |-> layout, value |-> History("test v1")],
                                "test v1", "{}")
        /\ query' = [NoQuery EXCEPT !.fn = "add_test_to_db", !.args = o, !.kind = "return"]
    /\ UNCHANGED <<pipeline, aggregator, builder>>

CallEditTest ==
    /\ \E id \in 1..(MaxRows + 1), test \in TestTexts :
        LET out == edit_test_in_db(db, id, test)
        IN  /\ db' = out.db
            /\ query' = [NoQuery EXCEPT !.fn = "edit_test_in_db", !.args = <<id, test>>,
                                        !.kind = IF out.exc = "" THEN "return" ELSE "raise",
                                        !.exc = out.exc]
    /\ UNCHANGED <<pipeline, aggregator, builder>>

CallDeleteRow ==
    /\ \E id \in 1..(MaxRows + 1) :
        /\ db' = delete_row_from_db(db, id)
        /\ query' = [NoQuery EXCEPT !.fn = "delete_row_from_db", !.args = <<id>>,
                                    !.kind = "return"]
    /\ UNCHANGED <<pipeline, aggregator, builder>>

CallFunctionRows ==
    /\ \E name \in {"run", "step"} :
        query' = [NoQuery EXCEPT !.fn = "get_rows_by_function_name", !.args = <<name>>,
                                 !.kind = "return",
                                 !.rows = get_rows_by_function_name(db, name)]
    /\ UNCHANGED <<pipeline, aggregator, builder, db>>

CallMethodRows ==
    /\ \E class_name \in {"Cls", "Other"}, name \in {"run", "step"} :
        query' = [NoQuery EXCEPT !.fn = "get_rows_by_method_name",
                                 !.args = <<class_name, name>>, !.kind = "return",
                                 !.rows = get_rows_by_method_name(db, class_name, name)]
    /\ UNCHANGED <<pipeline, aggregator, builder, db>>

\* A database just created; tests are stored, edited, deleted and queried.
RecordsInit == Init /\ api_key = NoneVal /\ model = NoneVal

RecordsNext ==
    \/ CallAddTest
    \/ CallEditTest
    \/ CallDeleteRow
    \/ CallFunctionRows
    \/ CallMethodRows

RecordsSpec == RecordsInit /\ [][RecordsNext]_vars

\* ------------------- _run_tests_script.py, one bootstrap process step by step

\* sys.argv[2], character by character: config.ADAPTER.module.
ModuleDirs == {<<"/", "m", "o", "d", ".", "p", "y">>, <<"m", "o", "d", ".", "p", "y">>}

\* str.replace(old, new) for one-character strings
replace(s, old, new) == [i \in 1..Len(s) |-> IF s[i] = old THEN new ELSE s[i]]

\* lines 79-82: the dotted name of the module under test
mod_name(module_dir) ==
    IF Len(module_dir) > 0 /\ module_dir[1] = "/"
    THEN replace(SubSeq(module_dir, 2, Len(module_dir) - 3), "/", ".")
    ELSE replace(SubSeq(module_dir, 1, Len(module_dir) - 3), "/", ".")

\* An entry of sys.modules: the name, and whether the module object was
\* loaded before run_tests_with_coverage_python was entered or during it.
Loaded(name, load) == [name |-> name, load |-> load]

\* What the interpreter may have loaded when the runner is entered.
Preloadable == {Loaded(<<"m", "o", "d">>, "before"), Loaded(<<"o", "s">>, "before")}

\* The test_source files the bootstrap may find: processed responses.
Candidates == {postprocess_resp(r) : r \in {q \in Responses : ~PostprocessRaises(q)}}

UnloadedNot(mods, name) == mods

\* lines 84-85: if mod_name in sys.modules: del sys.modules[mod_name]
Unloaded(mods, name) == {m \in mods : m.name # name}

\* Executing the candidate reaches an import of the module under test:
\* the file compiles and no line before the import raises.
ImportReached(src) ==
    /\ \A i \in 1..Len(src) : src[i] \notin NotPython
    /\ \E i \in 1..Len(src) :
            /\ src[i] \in {import_string, import_asterisk, import_longer}
            /\ \A j \in 1..(i - 1) : src[j] \notin RaisingLines

\* What coverage records for a line executed while it is measuring.
Traced(cov, line, load) ==
    IF cov = "started" THEN {[line |-> line, load |-> load]} ELSE {}

\* The variables a bootstrap step leaves alone.
beside_script ==
    <<outside, daemon, sandbox, config, pc, phase, inputs, messages, locals, result, history>>

\* lines 141-145: the interpreter starts and calls the runner.
Launch ==
    /\ script.pc \in {"idle", "exited"}
    /\ \E d \in ModuleDirs, src \in Candidates, json_ok \in BOOLEAN,
          mods \in SUBSET Preloadable :
            script' = [NoScript EXCEPT !.pc = "unload", !.module_dir = d, !.src = src,
                                       !.json_ok = json_ok, !.entered = mods,
                                       !.sys_modules = mods]
    /\ UNCHANGED beside_script

\* lines 78-85
Unload ==
    /\ script.pc = "unload"
    /\ script' = [script EXCEPT
                    !.pc = "measure",
                    !.sys_modules = Unloaded(@, mod_name(script.module_dir))]
    /\ UNCHANGED beside_script

\* lines 87-99: the temp file name, Coverage(source=[mod_name]), cov.start()
StartCoverage ==
    /\ script.pc = "measure"
    /\ script' = [script EXCEPT !.pc = "load", !.cov = "started"]
    /\ UNCHANGED beside_script

\* line 100, _run_tests lines 58-68: exec_module of the candidate. Its
\* import statement loads the module under test unless sys.modules has it.
LoadCandidate ==
    /\ script.pc = "load"
    /\ LET name == mod_name(script.module_dir)
           r == _run_tests(script.src)
           cached == {m \in script.sys_modules : m.name = name}
           imports == ImportReached(script.src)
           fresh == imports /\ cached = {}
       IN  script' = [script EXCEPT
                !.pc = CASE r.kind = "raise" -> "exited"
                         [] r.kind = "str" -> "stop"
                         [] OTHER -> "test",
                !.sys_modules = IF fresh THEN @ \cup {Loaded(name, "during")} ELSE @,
                !.traced = IF fresh THEN @ \cup Traced(script.cov, 1, "during") ELSE @,
                !.bound = IF ~imports THEN "none"
                          ELSE IF fresh THEN "during"
                          ELSE (CHOOSE m \in cached : TRUE).load,
                !.result = r.kind]
    /\ UNCHANGED beside_script

\* _run_tests lines 70-76: the tests call the target, whose body is line 2
\* of the module object the candidate imported it from.
RunTests ==
    /\ script.pc = "test"
    /\ script' = [script EXCEPT
                    !.pc = "stop",
                    !.traced = IF TargetImported(script.src)
                                    /\ \E i \in 1..Len(script.src) : script.src[i] \in TestLines
                               THEN @ \cup Traced(script.cov, 2, script.bound)
                               ELSE @]
    /\ UNCHANGED beside_script

\* line 101
StopCoverage ==
    /\ script.pc = "stop"
    /\ script' = [script EXCEPT !.pc = "report", !.cov = "stopped"]
    /\ UNCHANGED beside_script

\* lines 103-133 and 146-147: the report of what coverage recorded.
WriteReport ==
    /\ script.pc = "report"
    /\ LET out == run_tests_with_coverage_python(script.src, script.json_ok)
           lines == {t.line : t \in script.traced}
       IN  script' = [script EXCEPT
                !.pc = "exited",
                !.written = TRUE,
                !.test_metadata =
                    IF "executed_lines" \in out.test_metadata.keys
                    THEN [out.test_metadata EXCEPT !.executed_lines = lines,
                                                   !.missing_lines = ModuleLines \ lines]
                    ELSE out.test_metadata]
    /\ UNCHANGED beside_script

\* One interpreter after the other, each started on its own candidate.
BootstrapInit == Init /\ api_key = NoneVal /\ model = NoneVal

BootstrapNext ==
    \/ Launch
    \/ Unload
    \/ StartCoverage
    \/ LoadCandidate
    \/ RunTests
    \/ StopCoverage
    \/ WriteReport

BootstrapSpec == BootstrapInit /\ [][BootstrapNext]_vars

\* ------------------------------------------------------------ properties

IsPrefix(s, t) == Len(s) <= Len(t) /\ \A i \in 1..Len(s) : s[i] = t[i]

Last(s) == s[Len(s)]

\* The sandbox runs of the combining step and of the main loop.
PreRuns == {i \in 1..Len(runs) : runs[i].phase = "pre"}
LoopRuns == {i \in 1..Len(runs) : runs[i].phase = "loop"}
\* The completion requests by kind.
Reprompts == {i \in 1..Len(reqs) : reqs[i].kind = "reprompt"}
Combines == {i \in 1..Len(reqs) : reqs[i].kind = "combine"}

Ended == pc \in {"returned", "raised"}

\* The report shows a compile error; it shows a failing test.
HasCompileError(report) ==
    "compile_error" \in report.keys /\ TruthyStr(report.compile_error)
HasFailingTest(report) ==
    /\ "compile_error" \in report.keys /\ report.compile_error = NoneVal
    /\ \/ "errors" \in report.keys /\ Len(report.errors) > 0
       \/ "failures" \in report.keys /\ Len(report.failures) > 0
Clean(report) ==
    /\ report.keys = ReportKeys
    /\ report.compile_error = NoneVal
    /\ report.errors = <<>> /\ report.failures = <<>>

\* The step is a main-loop evaluation that got its report.
Evaluated == pc = "retrieve" /\ phase = "loop" /\ Len(runs') = Len(runs) /\ Last(runs').done

\* The request returned because a candidate was accepted (the loop broke);
\* because the iterations were used up.
Accepted == pc = "returned" /\ Cardinality(Reprompts) < Cardinality(LoopRuns)
Exhausted == pc = "returned" /\ Cardinality(Reprompts) = Cardinality(LoopRuns)

\* The steps a request can still take, at most: four per iteration of the
\* main loop (inject, exec, retrieve, reprompt), three per sample still to run
\* and one for the combining request.
LoopSteps == 4 * (max_iter - iter)
Remaining ==
    CASE pc = "idle" -> 4 * MaxIter + 3 * MaxSamples + 3
      [] pc = "draft" -> 4 * max_iter + 3 * n_samples + 2
      [] pc = "synth" -> 4 * max_iter + 1
      [] pc = "inject" ->
            IF phase = "pre" THEN 4 * max_iter + 1 + 3 * (n_samples - idx + 1)
            ELSE LoopSteps
      [] pc = "exec" ->
            IF phase = "pre" THEN 4 * max_iter + 1 + 3 * (n_samples - idx + 1) - 1
            ELSE LoopSteps - 1
      [] pc = "retrieve" ->
            IF phase = "pre" THEN 4 * max_iter + 1 + 3 * (n_samples - idx + 1) - 2
            ELSE LoopSteps - 2
      [] pc = "redraft" -> LoopSteps - 3
      [] OTHER -> 0

\* C1: for every max_iter = k >= 1 and whatever the completion service
\* answers, a request ends (returns or raises): every step it takes lowers a
\* bound on the steps left, which never goes below zero; and it makes at most
\* k evaluations in its main loop and at most k reprompts.
C1_Terminates ==
    [][ /\ Remaining' < Remaining
        /\ Remaining' >= 0
        /\ Cardinality(LoopRuns') <= max_iter'
        /\ Cardinality(Reprompts') <= max_iter' ]_vars

\* C1 witness: all max_iter >= 2 evaluations ran, on the same failing
\* candidate each time, and the request returned.
C1_Witness ==
    /\ Exhausted
    /\ max_iter >= 2
    /\ Cardinality(LoopRuns) = max_iter
    /\ \A i \in LoopRuns : runs[i].src = result.test /\ HasCompileError(runs[i].report)

\* C2 (as claimed): an evaluated report with compile_error null and a
\* non-empty errors or failures list sends the controller to a reprompt whose
\* user turn holds the enumerated list; the candidate is not accepted.
C2_FailingTestReprompts ==
    [][ (Evaluated /\ HasFailingTest(Last(runs').report)) =>
            /\ pc' = "redraft"
            /\ Len(messages') = Len(messages) + 2
            /\ Last(messages').role = "user"
            /\ In(Ordinal(1), Last(messages').content)
            /\ In("failed with error:", Last(messages').content) ]_vars

\* C3: an evaluated report with compile_error set appends the rejected
\* candidate as an assistant turn and a user turn holding that error text;
\* the request that follows asks for one sample at the temperature of the
\* initial request, with that conversation.
C3_CompileErrorReprompts ==
    [][ /\ (Evaluated /\ HasCompileError(Last(runs').report)) =>
            /\ pc' = "redraft"
            /\ Len(messages') = Len(messages) + 2
            /\ IsPrefix(messages, messages')
            /\ messages'[Len(messages) + 1] =
                    [role |-> "assistant", content |-> Last(runs').src]
            /\ Last(messages').role = "user"
            /\ In(Last(runs').report.compile_error, Last(messages').content)
        /\ (pc = "redraft") =>
            /\ Len(reqs') = Len(reqs) + 1
            /\ Last(reqs').n = 1
            /\ Last(reqs').temp = reqs[1].temp
            /\ Last(reqs').messages = messages
            /\ messages' = messages ]_vars

\* C3 witness: a reprompt was issued after a candidate that raised NameError
\* when loaded.
C3_Witness ==
    /\ Reprompts # {}
    /\ HasCompileError(Last(runs).report)
    /\ Last(reqs).kind = "reprompt"
    /\ In(ExcOf(raise_name_error).text, Last(Last(reqs).messages).content)

\* Every evaluation the loop allows was made and failed.
AllEvaluationsFailed ==
    /\ Cardinality(LoopRuns) = max_iter
    /\ \A i \in LoopRuns :
        runs[i].done /\ (HasCompileError(runs[i].report) \/ HasFailingTest(runs[i].report))

\* C4 (as claimed): when every one of the max_iter evaluations has failed, the
\* request does not raise; it returns the candidate run last with the report
\* of that run.
C4_ExhaustedReturns ==
    (AllEvaluationsFailed /\ Ended) =>
        /\ pc = "returned"
        /\ result.test = Last(runs).src
        /\ result.report = Last(runs).report

\* C5: an evaluated report with no compile error and no failing test ends the
\* request at once with the conversation (the one the accepted candidate was
\* asked for with), that candidate and that report; after a return there is no
\* further completion request and no further sandbox run.
C5_AcceptStops ==
    [][ /\ (Evaluated /\ Clean(Last(runs').report)) =>
            /\ pc' = "returned"
            /\ reqs' = reqs
            /\ result'.returned
            /\ result'.messages = messages
            /\ result'.messages = Last(reqs).messages
            /\ result'.test = Last(runs').src
            /\ result'.report = Last(runs').report
        /\ (pc = "returned") => (reqs' = reqs /\ runs' = runs /\ result' = result) ]_vars

\* C5 witness: a candidate was accepted after one reprompt.
C5_Witness ==
    /\ Accepted
    /\ Clean(result.report)
    /\ Cardinality(Reprompts) = 1

\* C6: a request for n > 1 samples that returns has made exactly n sandbox
\* runs, one per sample and before anything else, then exactly one combining
\* request, for one sample, then at least one run in the main loop; every
\* run of the main loop is on the one candidate of a one-sample request.
C6_CombineThenEvaluate ==
    (pc = "returned" /\ n_samples > 1) =>
        /\ Cardinality(PreRuns) = n_samples
        /\ PreRuns = 1..n_samples
        /\ \A i \in PreRuns : runs[i].done /\ runs[i].src = postprocess_resp(sample_results[i][1])
        /\ Cardinality(Combines) = 1
        /\ reqs[2].kind = "combine" /\ reqs[2].n = 1 /\ reqs[2].after_runs = n_samples
        /\ Cardinality(LoopRuns) >= 1
        /\ \A i \in 2..Len(reqs) : reqs[i].n = 1
        /\ Len(response) = 1

\* C6 witness: two samples that both pass, then a return.
C6_Witness ==
    /\ pc = "returned"
    /\ n_samples = 2
    /\ \A i \in PreRuns : Clean(runs[i].report)

\* C7 (as claimed): the conversation only grows at its end.
C7_AppendOnly == [][IsPrefix(messages, messages')]_vars

\* A report is filled as a whole: the compile error alone, or everything
\* with compile_error null.
WellFormed(report) ==
    \/ report.keys = {"compile_error"} /\ TruthyStr(report.compile_error)
    \/ report.keys = ReportKeys /\ report.compile_error = NoneVal

\* C8 (as claimed): every report the bootstrap writes is filled as a whole.
C8_ReportNeverPartial ==
    files.test_metadata.present => WellFormed(files.test_metadata.dict)

\* The script ran on a candidate whose loading raised.
LoadRaised == resp.present /\ ExecModule(run_src).raised

\* C9 (as claimed): when loading the candidate raises, the script exits 0
\* and its report holds that exception as compile_error and nothing else.
C9_LoadErrorIsCompileError ==
    LoadRaised =>
        /\ resp.exit_code = 0
        /\ files.test_metadata.present
        /\ files.test_metadata.dict.keys = {"compile_error"}
        /\ files.test_metadata.dict.compile_error = ExecModule(run_src).exc.text

\* C10 (as claimed): close_container on a sandbox that is not running any
\* more does not raise and changes nothing.
C10_CloseIdempotent ==
    [][ (container # "running" /\ pc' = pc) =>
            (close_raised' = FALSE /\ container' = container) ]_vars

\* The script, run on this source, wrote this report.
ProducedFrom(src, report) ==
    \E json_ok \in BOOLEAN :
        LET out == run_tests_with_coverage_python(src, json_ok)
        IN  out.kind = "return" /\ out.test_metadata = report

\* C11 (as claimed): the sandbox runs of a request do not overlap: every run
\* but the last one is over (it got its report) before the next file is
\* injected, the file in the sandbox during a run is that run's candidate,
\* and the report a run returned is the one the script produced from the
\* source of that run.
C11_RunsDoNotOverlap ==
    /\ \A i \in 1..(Len(runs) - 1) : runs[i].done
    /\ (pc \in {"exec", "retrieve"}) =>
            (files.test_source.present /\ files.test_source.lines = Last(runs).src)
    /\ \A i \in 1..Len(runs) :
            runs[i].done => ProducedFrom(runs[i].src, runs[i].report)

\* The step is a sandbox failure inside run_tests_in_container: the file
\* could not be put, exec_run failed or returned a non-zero exit code, or
\* the report could not be retrieved.
InjectFailed == pc = "inject" /\ Len(runs') = Len(runs) + 1 /\ pc' # "exec"
ExecFailed ==
    pc = "exec" /\ (~resp'.present \/ resp'.exit_code # 0 \/ pc' # "retrieve")
RetrieveFailed == pc = "retrieve" /\ ~Last(runs').done

\* C12: a sandbox failure during a run raises out of generate_tests_pipeline:
\* the run has no report, nothing is returned, the conversation gets no
\* reprompt turn, no completion request follows and nothing happens after.
C12_SandboxFailurePropagates ==
    [][ /\ (InjectFailed \/ ExecFailed \/ RetrieveFailed) =>
            /\ pc' = "raised"
            /\ ~Last(runs').done /\ Last(runs').report = EmptyDict
            /\ test_report' = test_report
            /\ sample_results' = sample_results
            /\ messages' = messages
            /\ reqs' = reqs
            /\ ~result'.returned
        /\ (pc = "raised") => (pc' = "raised" /\ reqs' = reqs /\ runs' = runs) ]_vars

\* C12 witness: the script ended with a non-zero exit code in the second
\* evaluation of the main loop and the request raised.
C12_Witness ==
    /\ pc = "raised"
    /\ resp.present /\ resp.exit_code # 0
    /\ Cardinality(LoopRuns) = 2
    /\ ~Last(runs).done

\* ------------------------------------------- properties of the aggregator

\* The last call was compute_coverage; find_lines.
Computed == call.fn = "compute_coverage"
Found == call.fn = "find_lines"

\* C13: compute_coverage on an empty list of records returns 0 for every
\* object type, supported or not, with or without an adapter: find_lines is
\* not called, no line range is looked up.
C13_NoRecordsIsZero ==
    (Computed /\ test_metadata = <<>>) =>
        /\ call.kind = "return"
        /\ call.value = 0
        /\ call.start_line = 0 /\ call.end_line = 0

\* C13 witness: compute_coverage was called for a class method with no
\* record while no adapter was set.
C13_Witness ==
    /\ Computed /\ test_metadata = <<>>
    /\ ADAPTER = NoneVal
    /\ call.object_type = "class method"

\* The lines of all records, executed and missing, inside [st, end].
ExecutedIn(st, end) ==
    {l \in st..end : \E i \in 1..Len(test_metadata) : l \in test_metadata[i].executed_lines}
MissingIn(st, end) ==
    {l \in st..end : \E i \in 1..Len(test_metadata) : l \in test_metadata[i].missing_lines}

\* C14: the value compute_coverage returns is the share of the lines of the
\* range executed by at least one record among the lines of the range that
\* any record measured; a line executed by one record and missing in another
\* counts as executed; when every measured line of the range is executed by
\* some record the value is exactly 100.
C14_CoverageAccumulates ==
    (Computed /\ call.kind = "return" /\ test_metadata # <<>>) =>
        LET E == ExecutedIn(call.start_line, call.end_line)
            M == MissingIn(call.start_line, call.end_line)
        IN  /\ E \cup M # {}
            /\ call.value = (Cardinality(E) * 100) \div Cardinality(E \cup M)
            /\ (M \subseteq E) => call.value = 100

\* C14 witness: two records; a line of the range is missing in the first and
\* executed in the second, and the coverage is 100.
C14_Witness ==
    /\ Computed /\ call.kind = "return"
    /\ Len(test_metadata) = 2
    /\ \E l \in call.start_line..call.end_line :
        l \in test_metadata[1].missing_lines /\ l \in test_metadata[2].executed_lines
    /\ call.value = 100

\* C15 (as claimed): with at least one record and no executed and no missing
\* line of any record inside the range of the object, compute_coverage
\* returns 0.
C15_EmptyRangeIsZero ==
    [][ LET fl == find_lines(call'.object_type, ADAPTER, module_source) IN
        ( /\ call' # call /\ call'.fn = "compute_coverage"
          /\ test_metadata # <<>>
          /\ fl.kind = "return"
          /\ ExecutedIn(fl.start_line, fl.end_line) = {}
          /\ MissingIn(fl.start_line, fl.end_line) = {} ) =>
            (call'.kind = "return" /\ call'.value = 0) ]_vars

\* The stripped lines of the module and of the object, split on newline.
StrippedModule ==
    [i \in 1..(Len(module_source) + 1) |-> strip(split_newline(module_source)[i])]
StrippedObject ==
    LET src == split_newline(retrieve_func_source(module_source))
    IN  [i \in 1..Len(src) |-> strip(src[i])]
\* The object's lines are the module's lines from line i on.
MatchesAt(i) ==
    /\ i >= 1 /\ i + Len(StrippedObject) - 1 <= Len(StrippedModule)
    /\ \A k \in 1..Len(StrippedObject) : StrippedModule[i + k - 1] = StrippedObject[k]

Contiguous(sheet) == \A i \in 1..Len(sheet) : sheet[i].number = i

\* C18 (as claimed): whatever sections are empty, for a function and for a
\* method, the points of the info sheet are numbered 1, 2, 3, ... with no
\* gap and no number twice.
C18_NumberingContiguous ==
    (built.fn = "generate_python_info_sheet") => Contiguous(built.info_sheet)

Prepared == built.fn = "prepare_prompt"
PreparedSheet == Prepared /\ built.kind = "return"

\* The three failures the contract of prepare_prompt names.
UnknownTarget(u, a) == ~In(a.object_name, u.body_func_names \o u.body_class_names)
ClassWithoutMethodName(u, a) ==
    In(a.object_name, u.body_class_names) /\ a.method_name = NoneVal
ClassWithUnknownMethod(u, a) ==
    /\ In(a.object_name, u.body_class_names) /\ a.method_name # NoneVal
    /\ ~In(a.method_name, Names(MethodNodes(u, a.object_name)))

\* C17 (as claimed): prepare_prompt raises, and returns no messages, when
\* the target is neither a function nor a class of the module, when it is
\* a class and no method name is given, and when it is a class and the
\* method name is not one of its methods; in every other case it returns
\* exactly two messages, the system message then the user message.
C17_PreparePromptContract ==
    Prepared =>
        IF \/ UnknownTarget(unit, built.args)
           \/ ClassWithoutMethodName(unit, built.args)
           \/ ClassWithUnknownMethod(unit, built.args)
        THEN built.kind = "raise" /\ built.messages = <<>>
        ELSE /\ built.kind = "return"
             /\ Len(built.messages) = 2
             /\ built.messages[1].role = "system"
             /\ built.messages[2].role = "user"

\* The numbered sections after the location line.
NumberedSections(sheet) == {sheet[i] : i \in 2..Len(sheet)}
NoEmptySection(sheet) == \A sec \in NumberedSections(sheet) : TruthyStr(sec.content)

\* Imports, constants, variables and call-target definitions of the prompt
\* just built are all empty.
NothingToTell ==
    /\ unit.import_statements = <<>>
    /\ unit.imported_constants = <<>>
    /\ unit.variables = <<>>
    /\ get_local_defs_str(unit, built.local_calls) = ""

\* The class of a method target gives the sheet nothing: no constructor to
\* show (none, or the target is the constructor) and no class attributes.
ClassGivesNothing ==
    /\ ~(_has_init(unit, built.args.object_name) /\ built.args.method_name # "__init__")
    /\ unit.body_class_nodes[IndexOf(built.args.object_name, unit.body_class_names)].attributes = <<>>

\* C19 (amended): no numbered section of a built info sheet has empty
\* content, and when imports, constants, variables and call-target
\* definitions are all empty the sheet is the location line alone for a
\* function target, and for a method target whose class has no constructor
\* to show and no attributes.
C19_NoEmptySection ==
    PreparedSheet =>
        /\ NoEmptySection(built.info_sheet)
        /\ (/\ NothingToTell
            /\ built.args.method_name = NoneVal \/ ClassGivesNothing)
                => Len(built.info_sheet) = 1

\* A function with nothing to tell about got a sheet of the location line.
C19_Witness ==
    /\ PreparedSheet /\ built.args.method_name = NoneVal
    /\ NothingToTell /\ Len(built.info_sheet) = 1

\* C19 (as claimed): no numbered section is empty, and for any target with
\* imports, constants, variables and call-target definitions all empty the
\* sheet is the location line alone.
C19_OnlyLocationLine ==
    PreparedSheet =>
        /\ NoEmptySection(built.info_sheet)
        /\ NothingToTell => Len(built.info_sheet) = 1

GotLocalCalls == built.fn = "get_local_calls"

\* What a first get_local_calls on a freshly built analyser of the same
\* module returns for the target t.
FirstInvocation(t) ==
    {get_local_calls(CodeAnalyser(mod), VisitorAfterInit(mod),
                     t.node, t.method, t.class_name).local_calls :
        mod \in {m \in SourcedModules : CodeAnalyser(m) = unit}}

\* C20: after any sequence of get_local_calls and prepare_prompt on the
\* same or other targets, get_local_calls returns for its target the set a
\* first invocation on a freshly built analyser returns.
C20_GetLocalCallsStateless ==
    GotLocalCalls => FirstInvocation(built.args) = {built.local_calls}

\* get_local_calls on a target that calls nothing, in a module whose
\* body-level assignment left the called name helper in the visitor.
C20_Witness ==
    /\ GotLocalCalls /\ built.args.node.body = NoBody
    /\ Len(unit.local_type_variables) > 0
    /\ built.local_calls = {} /\ visitor.func_names = {}

\* The local instances a target's calls may go through: those bound in its
\* own body, before those bound at the body level of the module.
InstancesOf(node) == update(unit.body_instances, Bound(unit, node))

\* C21 (as claimed): for a method target get_local_calls rewrites a call
\* through the leading self/cls parameter to ClassName.method, and a call
\* through a variable bound to ClassName() to ClassName.method as well,
\* as it does for a function target.
C21_MethodInstanceRewritten ==
    (GotLocalCalls /\ built.args.method) =>
        \A nm \in built.args.node.body.calls :
            /\ (Len(nm) > 1 /\ nm[1] = built.args.node.first_arg)
                    => (<<built.args.class_name>> \o Tail(nm)) \in built.local_calls
            /\ (Len(nm) > 1 /\ nm[1] \in keys(InstancesOf(built.args.node))
                           /\ nm[1] # built.args.node.first_arg)
                    => (<<get(InstancesOf(built.args.node), nm[1])>> \o Tail(nm))
                            \in built.local_calls

\* ---------------------------------------- properties of the postprocessing

\* The response postprocess_resp was last called on, at the moment its
\* result has been put into the sandbox.
Candidate == IF phase = "pre" THEN response[idx] ELSE response[1]

\* The text imports the target: by its name or by the wildcard import.
ImportsTarget(text) == In(import_string, text) \/ In(import_asterisk, text)
Occurrences(l, text) == Cardinality({i \in 1..Len(text) : text[i] = l})

\* C22 (as claimed): whatever the response, fenced or not, the source
\* postprocess_resp returns imports the target; the import statement is
\* inserted as the first line exactly when the response has neither an
\* import of the target nor the wildcard import, and it is in the
\* returned text.
C22_TargetImported ==
    (pc = "exec") =>
        /\ ImportsTarget(run_src)
        /\ ~ImportsTarget(Candidate) => (run_src # <<>> /\ run_src[1] = import_string)
        /\ ImportsTarget(Candidate) =>
                Occurrences(import_string, run_src) <= Occurrences(import_string, Candidate)

\* ------------------------------------------- properties of the lifecycle

\* This step is a construction of a ContainerManager.
Constructing == manager'.calls = manager.calls + 1
\* The image asked for is among the images of the daemon.
ImagePresent == \E img \in docker.images : In(image_asked, img.tags)
Ids(cs) == {c.id : c \in cs}

\* C23: at any time there is at most one container of the sandbox name; a
\* construction that gets past the image check leaves no container that
\* had the name before it, and one that succeeds leaves exactly one, its
\* own, running, with the project directory mounted read-only at
\* /tmp/autotestgen/.
C23_AtMostOneSandbox ==
    [][/\ Cardinality(Sandboxes(docker)) <= 1
       /\ Cardinality(Sandboxes(docker')) <= 1
       /\ (Constructing /\ validate_image_name(docker, image_asked) = "")
            => Ids(Sandboxes(docker)) \cap Ids(docker'.containers) = {}
       /\ (Constructing /\ manager'.exc = "")
            => /\ Ids(Sandboxes(docker')) = {manager'.container}
               /\ \A c \in Sandboxes(docker') :
                    /\ c.status = "running"
                    /\ c.volumes = [host |-> repo_dir, bind |-> "/tmp/autotestgen/",
                                    mode |-> "ro"]]_vars

\* A second construction succeeded: its container is the only one.
C23_Witness ==
    /\ manager.calls = 2 /\ manager.exc = "" /\ manager.container = 3
    /\ Ids(docker.containers) = {3} /\ container = "running"

\* C24 (as claimed): a construction for an image the daemon does not have
\* ends with the image-not-found error (ValueError) and leaves the
\* containers of the daemon as they were.
C24_ImageNotFoundFirst ==
    [][(Constructing /\ ~ImagePresent)
            => (manager'.exc = "ValueError" /\ docker' = docker)]_vars

\* major.minor is at least 3.9
AtLeast39(python) == python[1] > 3 \/ (python[1] = 3 /\ python[2] >= 9)

\* C25 (as claimed): the requirement check accepts the python3 of the
\* started container exactly when its version major.minor is at least 3.9.
C25_VersionAtLeast39 ==
    [][(/\ Constructing
        /\ manager'.exc \in {"", "RuntimeError"}
        /\ container' = "running")
            => \A c \in Sandboxes(docker') :
                    c.python # <<>> => (manager'.exc = "" <=> AtLeast39(c.python))]_vars

\* -------------------------------------------- properties of the database

\* C26: update_token_count(model, i, o) adds i and o to input_tokens and
\* output_tokens of the row of the model and leaves the rows of all other
\* models as they were; so after any sequence of calls a row holds its
\* initial values plus the sums of the increments passed for its model.
C26_TokensIncrement ==
    [][(query'.fn = "update_token_count") =>
            /\ {r.model : r \in db'.token_usage} = {r.model : r \in db.token_usage}
            /\ Cardinality(db'.token_usage) = Cardinality(db.token_usage)
            /\ \A r \in db.token_usage :
                    UsageOf(db', r.model) =
                        IF r.model = query'.args[1]
                        THEN [r EXCEPT !.input_tokens = @ + query'.args[2],
                                       !.output_tokens = @ + query'.args[3]]
                        ELSE r]_vars

\* Two calls for gpt-4 have added up; the other row is as created.
C26_Witness ==
    /\ query.fn = "update_token_count" /\ query.args = <<"gpt-4", 1, 2>>
    /\ UsageOf(db, "gpt-4").input_tokens = 2
    /\ UsageOf(db, "gpt-4").output_tokens = 3
    /\ UsageOf(db, "gpt-3.5-turbo").input_tokens = 0

\* The row r as edit_test_in_db(id, test) has to leave it.
EditedAsClaimed(r, after, test) ==
    LET old == json_loads(r.history)
        new == json_loads(after.history)
    IN  /\ after.test = test
        /\ Len(new) = Len(old)
        /\ new[Len(new)].content = test
        /\ new[Len(new)].role = old[Len(old)].role
        /\ SubSeq(new, 1, Len(new) - 1) = SubSeq(old, 1, Len(old) - 1)
        /\ after.id = r.id /\ after.module = r.module /\ after.class = r.class
        /\ after.object = r.object /\ after.metadata = r.metadata

\* C27: edit_test_in_db(id, test) sets the test of the record to the new
\* text and the content of its last history entry to it; the earlier
\* history entries, the module, class, object and metadata of the record
\* and every other record stay as they were.
C27_EditFrame ==
    [][(query'.fn = "edit_test_in_db" /\ query'.kind = "return") =>
            /\ \E r \in db.tests, after \in db'.tests :
                    /\ r.id = query'.args[1] /\ after.id = r.id
                    /\ EditedAsClaimed(r, after, query'.args[2])
                    /\ db'.tests \ {after} = db.tests \ {r}
            /\ db'.token_usage = db.token_usage]_vars

\* Record 1 of two was edited to the second text.
C27_Witness ==
    /\ query.fn = "edit_test_in_db" /\ query.kind = "return"
    /\ query.args = <<1, "test v2">>
    /\ \E r \in db.tests : r.id = 1 /\ r.test = "test v2"
    /\ \E r \in db.tests : r.id = 2 /\ r.test = "test v1"

\* C28: get_rows_by_function_name(name) returns the records of that object
\* name whose class is NULL, never a record stored for a method, and
\* get_rows_by_method_name(class, name) returns exactly the records whose
\* class and object are the ones given.
C28_QueriesKeyedByKind ==
    /\ (query.fn = "get_rows_by_function_name") =>
            /\ query.rows = {r \in db.tests : r.object = query.args[1] /\ r.class = NoneVal}
            /\ \A r \in query.rows : r.class = NoneVal
    /\ (query.fn = "get_rows_by_method_name") =>
            query.rows = {r \in db.tests :
                            r.class = query.args[1] /\ r.object = query.args[2]}

\* A function run and a method run are stored; the function query gave
\* the one record of the function.
C28_Witness ==
    /\ query.fn = "get_rows_by_function_name" /\ query.args = <<"run">>
    /\ \E r \in db.tests : r.class = "Cls" /\ r.object = "run"
    /\ Cardinality(query.rows) = 1
    /\ \A r \in query.rows : r.class = NoneVal

\* ---------------------------------- properties of the runs of one request

\* The runs the samples account for: one per sample when there are several.
SampleRuns == IF n_samples > 1 THEN n_samples ELSE 0

\* C29: a request that returns has made sample_count + iterations_used
\* sandbox runs when sample_count > 1 and iterations_used runs when
\* sample_count = 1, iterations_used being the number of evaluations of the
\* main loop, at most max_iter; the samples are run once each, not once
\* per iteration, so wherever the sum and the product
\* sample_count * iterations_used differ the total is the sum.
C29_RunsAreSum ==
    (pc = "returned") =>
        /\ Cardinality(LoopRuns) <= max_iter
        /\ Cardinality(LoopRuns) = IF Accepted THEN iter + 1 ELSE max_iter
        /\ Cardinality(PreRuns) = SampleRuns
        /\ Len(runs) = SampleRuns + Cardinality(LoopRuns)
        /\ (n_samples > 1 /\ SampleRuns + Cardinality(LoopRuns) # n_samples * Cardinality(LoopRuns))
                => Len(runs) # n_samples * Cardinality(LoopRuns)

\* Two samples were run, then the combined candidate once: 3 runs, not 2.
C29_Witness ==
    /\ pc = "returned" /\ n_samples = 2 /\ max_iter = 2
    /\ Cardinality(LoopRuns) = 1 /\ Len(runs) = 3

\* The three summaries of a sample.
SummaryIsError(summary) == summary # <<>> /\ summary[1] = error_pre
SummaryIsPassed(summary) == summary = <<success_pre>>

\* C30 (as claimed): the outcome of every sample is summarised as a compile
\* error when its report has one, as failed tests when compile_error is
\* null and errors or failures is not empty, and as passed otherwise; a
\* report with a failed assertion is never summarised as passed.
C30_SampleSummaries ==
    \A i \in 1..Len(sample_results) :
        LET report == runs[i].report
            summary == sample_results[i][2]
        IN  /\ HasCompileError(report) =>
                    summary = <<error_pre, report.compile_error>>
            /\ HasFailingTest(report) =>
                    (SummaryIsError(summary) /\ Len(summary) > 1)
            /\ Clean(report) => SummaryIsPassed(summary)
            /\ ("failures" \in report.keys /\ report.failures # <<>>)
                    => ~SummaryIsPassed(summary)


\* C31: in every bootstrap run the module under test is out of the
\* loaded-module table when coverage measurement starts, the measurement is
\* on before the candidate is loaded and goes off only after _run_tests has
\* returned, and every line it recorded was executed by a load of this run.
C31_CoverageBracketsRun ==
    LET name == mod_name(script.module_dir) IN
    /\ script.cov # "none" =>
            \A m \in script.sys_modules : m.name = name => m.load = "during"
    /\ script.pc \in {"test", "stop"} => script.cov = "started"
    /\ script.result # "" => script.cov # "none"
    /\ script.cov = "stopped" => script.result \in {"str", "result"}
    /\ \A t \in script.traced : t.load = "during"

\* The module was loaded before the runner was entered, the candidate
\* imported it and its tests ran under measurement.
C31_Witness ==
    /\ script.pc = "exited" /\ script.written
    /\ Loaded(mod_name(script.module_dir), "before") \in script.entered
    /\ script.result = "result"
    /\ \E t \in script.traced : t.line = 2
    /\ \E t \in script.traced : t.line = 1
    /\ Loaded(mod_name(script.module_dir), "during") \in script.sys_modules
    /\ Loaded(<<"o", "s">>, "before") \in script.sys_modules

\* The step-by-step report is the report of run_tests_with_coverage_python.
BootstrapAgrees ==
    script.written =>
        script.test_metadata =
            run_tests_with_coverage_python(script.src, script.json_ok).test_metadata

\* ------------------------------------- properties of the instance bindings

\* C32: where get_local_calls resolves instance names (a function target),
\* a call through a name bound in the target body to a class of the module
\* is resolved to that class, also when the module body binds the same name
\* to another class: the call through the outer class is not in the result.
C32_LocalShadowsOuter ==
    (GotLocalCalls /\ ~built.args.method) =>
        LET node == built.args.node
            local == Bound(unit, node)
        IN  \A nm \in node.body.calls :
                (Len(nm) > 1 /\ nm[1] \in keys(local)) =>
                    /\ (<<get(local, nm[1])>> \o Tail(nm)) \in built.local_calls
                    /\ \A p \in unit.body_instances :
                            (p[1] = nm[1] /\ p[2] # get(local, nm[1]))
                                => (<<p[2]>> \o Tail(nm)) \notin built.local_calls

\* inst = Other() in the module body, inst = Cls(); inst.run() in obj:
\* the call is resolved to Cls.run.
C32_Witness ==
    /\ GotLocalCalls /\ ~built.args.method
    /\ built.args.node.body = CallsInstance
    /\ <<"inst", "Other">> \in unit.body_instances
    /\ visitor.instances = {<<"inst", "Cls">>}
    /\ built.local_calls = {<<"Cls", "run">>}

\* --------------------------------------- properties of the repair requests

\* The completion requests that ask for a candidate of the main loop: the
\* initial one when it asks for one sample, the combining one, the reprompts.
LoopRequests == {i \in 1..Len(reqs) : reqs[i].n = 1}

\* C33 (as claimed): when the controller returns, every candidate it asked
\* for the main loop has been run in the sandbox after it was obtained; no
\* completion request is issued whose answer is left unevaluated, not after
\* the last allowed evaluation has failed either.
C33_NoDiscardedRequest ==
    (pc = "returned") =>
        /\ \A i \in LoopRequests :
                \E j \in LoopRuns : j = reqs[i].after_runs + 1 /\ runs[j].done
        /\ Cardinality(LoopRequests) = Cardinality(LoopRuns)

\* -------------------------------------- properties of the conversation

\* [system, user] followed by (assistant, user) pairs.
Alternating(msgs) ==
    /\ Len(msgs) >= 2 /\ Len(msgs) % 2 = 0
    /\ msgs[1].role = "system"
    /\ \A i \in 2..Len(msgs) : msgs[i].role = IF i % 2 = 0 THEN "user" ELSE "assistant"

\* The main-loop evaluations whose report shows a compile error or a failing test.
FailedRuns ==
    {i \in LoopRuns :
        runs[i].done /\ (HasCompileError(runs[i].report) \/ HasFailingTest(runs[i].report))}

\* The main-loop evaluations the controller took for failed (lines 98, 113).
RejectedRuns ==
    {i \in LoopRuns : runs[i].done /\ Branch(runs[i].report) \in {"compile_error", "errors"}}

\* One pair per run of the set, in the order of the runs; the assistant
\* turn of a pair is the source that run executed.
PairedWith(msgs, failed) ==
    /\ Len(msgs) = 2 + 2 * Cardinality(failed)
    /\ \A i \in failed :
        LET k == Cardinality({j \in failed : j <= i})
        IN  msgs[2 * k + 1] = [role |-> "assistant", content |-> runs[i].src]

\* C34 (as claimed): at every point of a request the conversation is
\* [system, user] followed by (assistant, user) pairs, one pair per failed
\* evaluation of the main loop, whose assistant turn is the processed source
\* that evaluation executed; the conversation returned is the one held at
\* that point and ends with a user message.
C34_ConversationShape ==
    /\ Alternating(messages)
    /\ PairedWith(messages, FailedRuns)
    /\ (pc = "returned") =>
            /\ result.messages = messages
            /\ Last(result.messages).role = "user"

\* With the evaluations the controller itself took for failed, the shape,
\* the pairing and the returned conversation are as described.
PairsAsTheControllerJudged ==
    /\ Alternating(messages)
    /\ PairedWith(messages, RejectedRuns)
    /\ (pc = "returned") =>
            /\ result.messages = messages
            /\ Last(result.messages).role = "user"

\* ------------------------------------------ properties of the report file

\* The step is run_tests_in_container returning a report to its caller.
ReportReturned ==
    /\ pc = "retrieve" /\ Len(runs) > 0 /\ Len(runs') = Len(runs)
    /\ ~Last(runs).done /\ Last(runs').done

\* C35 (as claimed): when the bootstrap ends with a non-zero exit code the
\* run raises and no report is read; and a report a run returns is the one
\* the bootstrap of that run wrote from that run's source, never a file an
\* earlier run left in the sandbox.
C35_ReportOfThisRun ==
    [][/\ (pc = "exec" /\ resp'.present /\ resp'.exit_code # 0) =>
                (pc' = "raised" /\ runs' = runs)
       /\ ReportReturned =>
                /\ resp.present /\ resp.exit_code = 0
                /\ run_tests_with_coverage_python(Last(runs).src, TRUE).kind = "return"
                /\ ProducedFrom(Last(runs).src, Last(runs').report)]_vars

\* ------------------------------------- properties of a failed construction

\* C36 (as claimed): a construction that fails because the container did
\* not reach the running state, or because its python3 does not meet the
\* requirement, leaves no container of the sandbox name, created or running.
C36_FailedStartLeavesNothing ==
    [][(Constructing /\ manager'.exc = "RuntimeError")
            => (Sandboxes(docker') = {} /\ container' = "removed")]_vars

\* ------------------------------------- properties of the configuration check

\* C37: a request made while the API key or the model is not set raises
\* at once: it issues no completion request, makes no sandbox run, leaves
\* the conversation as it was passed in and returns nothing.
C37_ChecksConfigurationFirst ==
    (api_key = NoneVal \/ model = NoneVal) =>
        /\ pc \in {"idle", "raised"}
        /\ reqs = <<>> /\ runs = <<>>
        /\ messages = InitialPrompt
        /\ files.test_source = NoFile
        /\ ~result.returned

\* A request was made with an API key and without a model: it raised.
C37_Witness ==
    /\ api_key # NoneVal /\ model = NoneVal
    /\ pc = "raised" /\ n_samples = MaxSamples
    /\ reqs = <<>> /\ runs = <<>>

\* ----------------------------------- properties of the aggregated line sets

\* C38: whenever compute_coverage returns a value for a non-empty list of
\* records, the executed and the missing lines it aggregated are disjoint,
\* both lie inside the range [start, end] of the object, and the value is
\* an integer from 0 to 100, computed from the sizes of the two sets.
C38_CoverageWellFormed ==
    (Computed /\ call.kind = "return" /\ test_metadata # <<>>) =>
        LET c == collect_executed_missing_lines(call.start_line, call.end_line, test_metadata)
        IN  /\ c.executed \cap c.missing = {}
            /\ c.executed \subseteq call.start_line..call.end_line
            /\ c.missing \subseteq call.start_line..call.end_line
            /\ call.value \in 0..100
            /\ call.value = int_percent(Cardinality(c.executed), Cardinality(c.missing))

\* Two records: line 1 is missing in the first and executed in the second,
\* line 2 is executed by none; half of the range is covered.
C38_Witness ==
    /\ Computed /\ call.kind = "return"
    /\ Len(test_metadata) = 2
    /\ test_metadata[1] = [executed_lines |-> {}, missing_lines |-> {1, 2}]
    /\ test_metadata[2] = [executed_lines |-> {1}, missing_lines |-> {2}]
    /\ call.start_line = 1 /\ call.end_line >= 2
    /\ call.value = 50

\* ------------------------------------ properties of repeated postprocessing

\* C39 (as claimed): the source postprocess_resp returned for a response,
\* fenced or not, with or without the import and the entry point, is a
\* fixed point of postprocess_resp: processing it again returns it as it is.
C39_PostprocessIdempotent ==
    (pc \in {"exec", "retrieve"} /\ run_src = postprocess_resp(Candidate)) =>
        /\ ~PostprocessRaises(run_src)
        /\ postprocess_resp(run_src) = run_src

\* For a response without a fence the processed source is a fixed point.
UnfencedIsFixedPoint ==
    (pc \in {"exec", "retrieve"} /\ ~In(fence_open, Candidate)) =>
        postprocess_resp(run_src) = run_src


====
